---- MODULE Spec2Model ----
(***************************************************************************)
(* A model of gl-settings: the retrying transport (client.py), the         *)
(* reconciliation operations (operations/*.py) and the tree walker         *)
(* (cli.py).  The specifications of the module:                            *)
(*   SpecTransport  one call of GitLabClient._request, attempt by attempt  *)
(*   SpecOps        one operation instance applied to one entity           *)
(*   SpecWalk       recurse() over a group tree                            *)
(*   SpecPaginate   one call of GitLabClient.paginate                      *)
(*   SpecExtract    one call of GitLabClient._extract_path_from_url        *)
(*   SpecMain       one run of main(): credential, resolution, walk, exit  *)
(*   SpecCoerce     one call of ProjectSettingOperation._coerce_value     *)
(* Durations are in milliseconds (0.5 s = 500).                            *)
(***************************************************************************)
EXTENDS Integers, Sequences, FiniteSets, TLC

VARIABLES
    \* ---- transport (GitLabClient._request) ----
    max_retries,     \* self.max_retries
    attempt,         \* the loop variable of `for attempt in range(max_retries + 1)`
    t_pc,            \* "loop" | "returned" | "raised"
    trace,           \* responses received so far, one per session.request call
    sleeps,          \* arguments of the time.sleep calls, in order
    t_exc,           \* the exception raised out of _request, or NoExc
    last_exception,  \* the local variable last_exception
    \* ---- operations and walker ----
    dry_run,         \* client.dry_run
    op,              \* the operation instance: its variant and parsed arguments
    remote,          \* the remote state of every entity
    log,             \* HTTP requests issued by the latest application / walk
    recorded,        \* self.results as appended by the latest application / walk
    raised,          \* exception that escaped the latest application / walk / lookup
    fault,           \* the fault rule the remote applied during it
    calls,           \* apply_to_project / apply_to_group invocations of the walk
    phase,           \* "fresh" | "applied" | "reapplied" | "walked"
    prev,            \* outcome summary of the application before the latest
    target,          \* the resolved root target of the walk
    filter_pattern,  \* the --filter glob of the walk, or NoFilter
    \* ---- command line (cli.main) and the client's helper functions ----
    token,           \* os.environ.get("GITLAB_TOKEN")
    target_url,      \* args.target_url
    exit_code,       \* what main() returned, or NotExited
    returned         \* the value the helper function under study returned

tvars == <<max_retries, attempt, t_pc, trace, sleeps, t_exc, last_exception>>
ovars == <<dry_run, op, remote, log, recorded, raised, fault, calls, phase, prev,
           target, filter_pattern>>
mvars == <<token, target_url, exit_code, returned>>
vars == <<max_retries, attempt, t_pc, trace, sleeps, t_exc, last_exception,
          dry_run, op, remote, log, recorded, raised, fault, calls, phase, prev,
          target, filter_pattern, token, target_url, exit_code, returned>>

(***************************************************************************)
(* Bounds                                                                  *)
(***************************************************************************)
MaxRetriesBound == 2

(***************************************************************************)
(* models.py constants                                                     *)
(***************************************************************************)
DEFAULT_MAX_RETRIES == 3
RETRY_BACKOFF_FACTOR == 500
PER_PAGE == 100
RETRYABLE_STATUS_CODES_404 == {429, 500, 502, 503, 504, 404}
RETRYABLE_STATUS_CODES == {429, 500, 502, 503, 504}

Max(a, b) == IF a >= b THEN a ELSE b

RECURSIVE Pow2(_)
Pow2(n) == IF n <= 0 THEN 1 ELSE 2 * Pow2(n - 1)

(***************************************************************************)
(* Transport: GitLabClient._request                                        *)
(***************************************************************************)
NoExc == [type |-> "none", status |-> 0]
NoHeader == "<absent>"

\* Retry-After header values a server may send, and float() of each in ms.
\* "soon" and "" do not parse; "" is also falsy for `if retry_after:`.
RetryAfterValues == {NoHeader, "", "0", "0.05", "2", "-1", "soon"}
FloatParses(h) == h \in {"0", "0.05", "2", "-1"}
FloatMs(h) == CASE h = "0" -> 0
                [] h = "0.05" -> 50
                [] h = "2" -> 2000
                [] h = "-1" -> 0 - 1000
                [] OTHER -> 0

ConnFailure == [kind |-> "conn", status |-> 0, retry_after |-> NoHeader]
HttpResp(s, h) == [kind |-> "http", status |-> s, retry_after |-> h]

Responses ==
    {ConnFailure}
    \cup {HttpResp(s, NoHeader) : s \in {200, 204, 400, 403, 404, 429, 500, 501, 502, 503, 504}}
    \cup {HttpResp(429, h) : h \in RetryAfterValues}
    \cup {HttpResp(503, "2")}

\* client.py:79-88
CalculateBackoff(resp, att) ==
    IF resp.status = 429
       /\ resp.retry_after \notin {NoHeader, ""}
       /\ FloatParses(resp.retry_after)
    THEN FloatMs(resp.retry_after)
    ELSE RETRY_BACKOFF_FACTOR * Pow2(att)

\* `attempt < self.max_retries` (client.py:54 and :67)
RetriesLeftOffByOne(att, maxr) == att <= maxr
RetriesLeft(att, maxr) == att < maxr

\* requests.Response.raise_for_status
RaisesForStatus(s) == s >= 400 /\ s < 600

HTTPError(s) == [type |-> "HTTPError", status |-> s]
ConnectionError == [type |-> "ConnectionError", status |-> 0]
ValueError == [type |-> "ValueError", status |-> 0]
RuntimeError == [type |-> "RuntimeError", status |-> 0]

\* One iteration of the retry loop: session.request answers `resp`.
Attempt(resp) ==
    /\ t_pc = "loop"
    /\ attempt <= max_retries
    /\ trace' = Append(trace, resp)
    /\ IF resp.kind = "conn"
       THEN /\ last_exception' = ConnectionError
            /\ IF RetriesLeft(attempt, max_retries)
               THEN /\ sleeps' = Append(sleeps, RETRY_BACKOFF_FACTOR * Pow2(attempt))
                    /\ attempt' = attempt + 1
                    /\ UNCHANGED <<t_pc, t_exc>>
               ELSE /\ t_pc' = "raised"
                    /\ t_exc' = ConnectionError
                    /\ UNCHANGED <<sleeps, attempt>>
       ELSE /\ UNCHANGED last_exception
            /\ IF resp.status \in RETRYABLE_STATUS_CODES /\ RetriesLeft(attempt, max_retries)
               THEN LET wait_time == CalculateBackoff(resp, attempt)
                    IN  /\ sleeps' = Append(sleeps, wait_time)
                        /\ IF wait_time < 0
                           THEN \* time.sleep raises ValueError on a negative length
                                /\ t_pc' = "raised"
                                /\ t_exc' = ValueError
                                /\ UNCHANGED attempt
                           ELSE /\ attempt' = attempt + 1
                                /\ UNCHANGED <<t_pc, t_exc>>
               ELSE /\ UNCHANGED <<sleeps, attempt>>
                    /\ IF RaisesForStatus(resp.status)
                       THEN t_pc' = "raised" /\ t_exc' = HTTPError(resp.status)
                       ELSE t_pc' = "returned" /\ t_exc' = NoExc
    /\ UNCHANGED <<max_retries>>
    /\ UNCHANGED ovars
    /\ UNCHANGED mvars

RequestAttempt == \E resp \in Responses : Attempt(resp)

\* The code after the loop (client.py:74-77), reached when the range is exhausted.
RetryLoopExit ==
    /\ t_pc = "loop"
    /\ attempt > max_retries
    /\ t_pc' = "raised"
    /\ t_exc' = IF last_exception # NoExc THEN last_exception ELSE RuntimeError
    /\ UNCHANGED <<max_retries, attempt, trace, sleeps, last_exception>>
    /\ UNCHANGED ovars
    /\ UNCHANGED mvars

(***************************************************************************)
(* Remote values.  JSON / Python scalars are tagged so that Python's ==    *)
(* can be modelled: bool, int and float compare by numeric value (n, in    *)
(* thousandths), strings by content (s, a sequence of tokens), None only   *)
(* equals None.                                                            *)
(***************************************************************************)
None == [t |-> "none", n |-> 0, s |-> <<>>]
PyBool(b) == [t |-> "bool", n |-> IF b THEN 1000 ELSE 0, s |-> <<>>]
PyInt(k) == [t |-> "int", n |-> k * 1000, s |-> <<>>]
PyFloat(m) == [t |-> "float", n |-> m, s |-> <<>>]
PyStr(x) == [t |-> "str", n |-> 0, s |-> x]

IsNum(v) == v.t \in {"bool", "int", "float"}
PyEq(a, b) == IF IsNum(a) /\ IsNum(b) THEN a.n = b.n
              ELSE a.t = b.t /\ a.n = b.n /\ a.s = b.s
PyNot(v) == PyBool(~(v.t # "none" /\ (IF IsNum(v) THEN v.n # 0 ELSE v.s # <<>>)))

\* models.py:22-31
ACCESS_LEVELS == [no_access |-> 0, minimal |-> 5, guest |-> 10, reporter |-> 20,
                  developer |-> 30, maintainer |-> 40, owner |-> 50, admin |-> 60]

(***************************************************************************)
(* HTTP requests as the operations issue them through the client, and the  *)
(* remote's answer.  Status 0 stands for a connection failure that lasted  *)
(* past the retry budget (requests.ConnectionError out of _request).       *)
(***************************************************************************)
Req(m, res, ent, key, body, ids) ==
    [method |-> m, res |-> res, ent |-> ent, key |-> key, body |-> body, ids |-> ids]

NoFault == [method |-> "-", res |-> "-", status |-> 200]
FaultRule(m, res, st) == [method |-> m, res |-> res, status |-> st]

\* The status the client call ends with: the fault rule's when it matches
\* the request, otherwise what the remote state gives.
St(f, m, res, natural) == IF f.method = m /\ f.res = res THEN f.status ELSE natural

Ok(st) == st >= 200 /\ st < 300
\* An interruption of the process (SIGINT) while a request is in flight
\* takes the place of its response: the request "answers" Interrupted and
\* KeyboardInterrupt is raised out of it.
Interrupted == -1
KeyboardInterrupt == [type |-> "KeyboardInterrupt", status |-> 0]
ExcOf(st) == IF st = 0 THEN ConnectionError
             ELSE IF st = Interrupted THEN KeyboardInterrupt
             ELSE HTTPError(st)

\* models.py:60-70, operations/base.py:73-97 (_record appends to self.results)
ActionResult(ttype, tid, operation, action, dry, detail) ==
    [target_type |-> ttype, target_id |-> tid, operation |-> operation,
     action |-> action, dry_run |-> dry, detail |-> detail]

\* The effect of one application: requests issued, the entity's new remote
\* state, outcomes appended to self.results, and the escaping exception.
Fin(lg, ent, rec, exc) == [log |-> lg, ent |-> ent, recorded |-> rec, raised |-> exc]

WouldOrApplied(d) == IF d THEN "would_apply" ELSE "applied"

(***************************************************************************)
(* protect-branch (operations/protect_branch.py)                           *)
(***************************************************************************)
AbsentPB == [present |-> FALSE, push |-> <<>>, merge |-> <<>>, force |-> FALSE]
PBRec(push, merge, force) == [present |-> TRUE, push |-> push, merge |-> merge, force |-> force]

RECURSIVE SeqMax(_)
SeqMax(q) == IF q = <<>> THEN 0 ELSE Max(Head(q), SeqMax(Tail(q)))

\* _max_access_level
MaxAccessLevelMin(access_levels) ==
    IF access_levels = <<>> THEN 0
    ELSE CHOOSE x \in {access_levels[i] : i \in 1..Len(access_levels)} :
            \A i \in 1..Len(access_levels) : x <= access_levels[i]
MaxAccessLevelFirst(access_levels) == IF access_levels = <<>> THEN 0 ELSE Head(access_levels)
MaxAccessLevel(access_levels) == IF access_levels = <<>> THEN 0 ELSE SeqMax(access_levels)

\* The guard of the mutating calls: `if not self.client.dry_run`
MutatesNever(d) == FALSE
MutatesAlways(d) == TRUE
Mutates(d) == ~d

\* the idempotency test of apply_to_project (protect_branch.py:59-63)
PBMatchesNever(existing, a) == FALSE
PBMatchesSwapped(existing, a) ==
    /\ MaxAccessLevel(existing.push) = a.merge
    /\ MaxAccessLevel(existing.merge) = a.push
    /\ existing.force = a.allow_force_push
PBMatches(existing, a) ==
    /\ MaxAccessLevel(existing.push) = a.push
    /\ MaxAccessLevel(existing.merge) = a.merge
    /\ existing.force = a.allow_force_push

\* The remote's answer to POST /protected_branches: 409 when a record exists.
PBCreate(e, lbl, pid, a, d, f, lg) ==
    IF ~Mutates(d)
    THEN Fin(lg, e, <<ActionResult("project", pid, lbl, WouldOrApplied(d), d, <<>>)>>, NoExc)
    ELSE LET post == Req("POST", "protected_branches", pid, a.branch,
                         {<<<<"name">>, PyStr(<<a.branch>>)>>,
                          <<<<"push_access_level">>, PyInt(a.push)>>,
                          <<<<"merge_access_level">>, PyInt(a.merge)>>,
                          <<<<"allow_force_push">>, PyBool(a.allow_force_push)>>}, {})
             st == St(f, "POST", "protected_branches",
                      IF e.pb[a.branch].present THEN 409 ELSE 201)
             lg2 == Append(lg, post)
         IN  IF st = 0 THEN Fin(lg2, e, <<>>, ConnectionError)
             ELSE IF ~Ok(st)
             THEN Fin(lg2, e, <<ActionResult("project", pid, lbl, "error", FALSE, <<>>)>>, NoExc)
             ELSE Fin(lg2,
                      [e EXCEPT !.pb[a.branch] =
                           PBRec(<<a.push>>, <<a.merge>>, a.allow_force_push)],
                      <<ActionResult("project", pid, lbl, WouldOrApplied(d), d, <<>>)>>, NoExc)

\* apply_to_project in protect mode, also InitProjectOperation._protect_branch
\* (which differs only in the operation label).
PBProtect(e, lbl, pid, a, d, f) ==
    LET get == Req("GET", "protected_branches", pid, a.branch, {}, {})
        st == St(f, "GET", "protected_branches", IF e.pb[a.branch].present THEN 200 ELSE 404)
        lg == <<get>>
        existing == e.pb[a.branch]
    IN  IF st = 0 THEN Fin(lg, e, <<>>, ConnectionError)
        ELSE IF st = 404 THEN PBCreate(e, lbl, pid, a, d, f, lg)
        ELSE IF ~Ok(st)
        THEN Fin(lg, e, <<ActionResult("project", pid, lbl, "error", FALSE, <<>>)>>, NoExc)
        ELSE IF PBMatches(existing, a)
        THEN Fin(lg, e, <<ActionResult("project", pid, lbl, "already_set", FALSE, <<>>)>>, NoExc)
        ELSE IF ~Mutates(d) THEN PBCreate(e, lbl, pid, a, d, f, lg)
        ELSE LET del == Req("DELETE", "protected_branches", pid, a.branch, {}, {})
                 st2 == St(f, "DELETE", "protected_branches", 204)
                 lg2 == Append(lg, del)
             IN  IF st2 = 0 THEN Fin(lg2, e, <<>>, ConnectionError)
                 ELSE IF st2 = 404 THEN PBCreate(e, lbl, pid, a, d, f, lg2)
                 ELSE IF ~Ok(st2)
                 THEN Fin(lg2, e, <<ActionResult("project", pid, lbl, "error", FALSE, <<>>)>>, NoExc)
                 ELSE PBCreate([e EXCEPT !.pb[a.branch] = AbsentPB], lbl, pid, a, d, f, lg2)

\* _unprotect: a non-404 error of the probe is re-raised, and the DELETE is
\* outside any try block.
PBUnprotect(e, pid, a, d, f) ==
    LET lbl == <<"unprotect-branch", a.branch>>
        get == Req("GET", "protected_branches", pid, a.branch, {}, {})
        st == St(f, "GET", "protected_branches", IF e.pb[a.branch].present THEN 200 ELSE 404)
        lg == <<get>>
    IN  IF st = 404
        THEN Fin(lg, e, <<ActionResult("project", pid, lbl, "already_set", FALSE, <<>>)>>, NoExc)
        ELSE IF ~Ok(st) THEN Fin(lg, e, <<>>, ExcOf(st))
        ELSE IF ~Mutates(d)
        THEN Fin(lg, e, <<ActionResult("project", pid, lbl, WouldOrApplied(d), d, <<>>)>>, NoExc)
        ELSE LET del == Req("DELETE", "protected_branches", pid, a.branch, {}, {})
                 st2 == St(f, "DELETE", "protected_branches", 204)
                 lg2 == Append(lg, del)
             IN  IF ~Ok(st2) THEN Fin(lg2, e, <<>>, ExcOf(st2))
                 ELSE Fin(lg2, [e EXCEPT !.pb[a.branch] = AbsentPB],
                          <<ActionResult("project", pid, lbl, WouldOrApplied(d), d, <<>>)>>, NoExc)

ProtectBranch_apply_to_project(e, pid, a, d, f) ==
    IF a.unprotect THEN PBUnprotect(e, pid, a, d, f)
    ELSE PBProtect(e, <<"protect-branch", a.branch>>, pid, a, d, f)

(***************************************************************************)
(* protect-tag (operations/protect_tag.py)                                 *)
(***************************************************************************)
AbsentPT == [present |-> FALSE, create |-> <<>>]
PTRec(create) == [present |-> TRUE, create |-> create]

PTCreate(e, lbl, pid, a, d, f, lg) ==
    IF ~Mutates(d)
    THEN Fin(lg, e, <<ActionResult("project", pid, lbl, WouldOrApplied(d), d, <<>>)>>, NoExc)
    ELSE LET post == Req("POST", "protected_tags", pid, a.tag,
                         {<<<<"name">>, PyStr(<<a.tag>>)>>,
                          <<<<"create_access_level">>, PyInt(a.create)>>}, {})
             st == St(f, "POST", "protected_tags", IF e.pt[a.tag].present THEN 409 ELSE 201)
             lg2 == Append(lg, post)
         IN  IF st = 0 THEN Fin(lg2, e, <<>>, ConnectionError)
             ELSE IF ~Ok(st)
             THEN Fin(lg2, e, <<ActionResult("project", pid, lbl, "error", FALSE, <<>>)>>, NoExc)
             ELSE Fin(lg2, [e EXCEPT !.pt[a.tag] = PTRec(<<a.create>>)],
                      <<ActionResult("project", pid, lbl, WouldOrApplied(d), d, <<>>)>>, NoExc)

\* apply_to_project in protect mode, also InitProjectOperation._protect_tag
PTProtect(e, lbl, pid, a, d, f) ==
    LET get == Req("GET", "protected_tags", pid, a.tag, {}, {})
        st == St(f, "GET", "protected_tags", IF e.pt[a.tag].present THEN 200 ELSE 404)
        lg == <<get>>
        existing == e.pt[a.tag]
    IN  IF st = 0 THEN Fin(lg, e, <<>>, ConnectionError)
        ELSE IF st = 404 THEN PTCreate(e, lbl, pid, a, d, f, lg)
        ELSE IF ~Ok(st)
        THEN Fin(lg, e, <<ActionResult("project", pid, lbl, "error", FALSE, <<>>)>>, NoExc)
        ELSE IF MaxAccessLevel(existing.create) = a.create
        THEN Fin(lg, e, <<ActionResult("project", pid, lbl, "already_set", FALSE, <<>>)>>, NoExc)
        ELSE IF ~Mutates(d) THEN PTCreate(e, lbl, pid, a, d, f, lg)
        ELSE LET del == Req("DELETE", "protected_tags", pid, a.tag, {}, {})
                 st2 == St(f, "DELETE", "protected_tags", 204)
                 lg2 == Append(lg, del)
             IN  IF st2 = 0 THEN Fin(lg2, e, <<>>, ConnectionError)
                 ELSE IF st2 = 404 THEN PTCreate(e, lbl, pid, a, d, f, lg2)
                 ELSE IF ~Ok(st2)
                 THEN Fin(lg2, e, <<ActionResult("project", pid, lbl, "error", FALSE, <<>>)>>, NoExc)
                 ELSE PTCreate([e EXCEPT !.pt[a.tag] = AbsentPT], lbl, pid, a, d, f, lg2)

PTUnprotect(e, pid, a, d, f) ==
    LET lbl == <<"unprotect-tag", a.tag>>
        get == Req("GET", "protected_tags", pid, a.tag, {}, {})
        st == St(f, "GET", "protected_tags", IF e.pt[a.tag].present THEN 200 ELSE 404)
        lg == <<get>>
    IN  IF st = 404
        THEN Fin(lg, e, <<ActionResult("project", pid, lbl, "already_set", FALSE, <<>>)>>, NoExc)
        ELSE IF ~Ok(st) THEN Fin(lg, e, <<>>, ExcOf(st))
        ELSE IF ~Mutates(d)
        THEN Fin(lg, e, <<ActionResult("project", pid, lbl, WouldOrApplied(d), d, <<>>)>>, NoExc)
        ELSE LET del == Req("DELETE", "protected_tags", pid, a.tag, {}, {})
                 st2 == St(f, "DELETE", "protected_tags", 204)
                 lg2 == Append(lg, del)
             IN  IF ~Ok(st2) THEN Fin(lg2, e, <<>>, ExcOf(st2))
                 ELSE Fin(lg2, [e EXCEPT !.pt[a.tag] = AbsentPT],
                          <<ActionResult("project", pid, lbl, WouldOrApplied(d), d, <<>>)>>, NoExc)

ProtectTag_apply_to_project(e, pid, a, d, f) ==
    IF a.unprotect THEN PTUnprotect(e, pid, a, d, f)
    ELSE PTProtect(e, <<"protect-tag", a.tag>>, pid, a, d, f)

(***************************************************************************)
(* project-setting (operations/project_setting.py).  A --setting argument  *)
(* is a sequence of characters; a key or a word that the code only ever    *)
(* compares as a whole may be written as one token.                        *)
(***************************************************************************)
UpperLetters == <<"A","B","C","D","E","F","G","H","I","J","K","L","M",
                  "N","O","P","Q","R","S","T","U","V","W","X","Y","Z">>
LowerLetters == <<"a","b","c","d","e","f","g","h","i","j","k","l","m",
                  "n","o","p","q","r","s","t","u","v","w","x","y","z">>
LowerChar(c) == IF \E i \in 1..26 : UpperLetters[i] = c
                THEN LowerLetters[CHOOSE i \in 1..26 : UpperLetters[i] = c]
                ELSE c
\* str.lower
StrLower(str) == [i \in 1..Len(str) |-> LowerChar(str[i])]

RECURSIVE LStrip(_)
LStrip(str) == IF str # <<>> /\ Head(str) = " " THEN LStrip(Tail(str)) ELSE str
RECURSIVE RStrip(_)
RStrip(str) == IF str # <<>> /\ str[Len(str)] = " "
               THEN RStrip(SubSeq(str, 1, Len(str) - 1)) ELSE str
\* str.strip
StrStrip(str) == RStrip(LStrip(str))

Digits == <<"0","1","2","3","4","5","6","7","8","9">>
IsDigit(c) == \E i \in 1..10 : Digits[i] = c
DigitVal(c) == (CHOOSE i \in 1..10 : Digits[i] = c) - 1
AllDigits(str) == str # <<>> /\ \A i \in 1..Len(str) : IsDigit(str[i])
RECURSIVE DigitsVal(_)
DigitsVal(str) == IF str = <<>> THEN 0
                  ELSE 10 * DigitsVal(SubSeq(str, 1, Len(str) - 1)) + DigitVal(str[Len(str)])

Unsigned(str) == IF str # <<>> /\ Head(str) \in {"-", "+"} THEN Tail(str) ELSE str
Sign(str) == IF str # <<>> /\ Head(str) = "-" THEN 0 - 1 ELSE 1

\* int(value): surrounding blanks, an optional sign, decimal digits
IntParses(value) == AllDigits(Unsigned(StrStrip(value)))
IntValue(value) == Sign(StrStrip(value)) * DigitsVal(Unsigned(StrStrip(value)))

\* float(value) on decimal notation: digits with at most one point
PointAt(str) == IF \E i \in 1..Len(str) : str[i] = "."
                THEN CHOOSE i \in 1..Len(str) : str[i] = "." ELSE 0
FloatParsesStr(value) ==
    LET u == Unsigned(StrStrip(value))
        k == PointAt(u)
        ip == IF k = 0 THEN u ELSE SubSeq(u, 1, k - 1)
        fp == IF k = 0 THEN <<>> ELSE SubSeq(u, k + 1, Len(u))
    IN  /\ ip \o fp # <<>>
        /\ \A i \in 1..Len(ip) : IsDigit(ip[i])
        /\ \A i \in 1..Len(fp) : IsDigit(fp[i])
\* the value in thousandths (fraction digits beyond the third are dropped)
FloatValue(value) ==
    LET u == Unsigned(StrStrip(value))
        k == PointAt(u)
        ip == IF k = 0 THEN u ELSE SubSeq(u, 1, k - 1)
        fp == IF k = 0 THEN <<>> ELSE SubSeq(u, k + 1, Len(u))
        f3 == SubSeq(fp \o <<"0", "0", "0">>, 1, 3)
    IN  Sign(StrStrip(value)) * (1000 * DigitsVal(ip) + DigitsVal(f3))

\* _coerce_value
CoerceValueIntFirst(value) ==
    IF IntParses(value) THEN PyInt(IntValue(value))
    ELSE IF StrLower(value) \in {<<"t","r","u","e">>, <<"y","e","s">>, <<"1">>} THEN PyBool(TRUE)
    ELSE IF StrLower(value) \in {<<"f","a","l","s","e">>, <<"n","o">>, <<"0">>} THEN PyBool(FALSE)
    ELSE IF FloatParsesStr(value) THEN PyFloat(FloatValue(value))
    ELSE PyStr(value)
CoerceValue(value) ==
    IF StrLower(value) \in {<<"t","r","u","e">>, <<"y","e","s">>, <<"1">>} THEN PyBool(TRUE)
    ELSE IF StrLower(value) \in {<<"f","a","l","s","e">>, <<"n","o">>, <<"0">>} THEN PyBool(FALSE)
    ELSE IF IntParses(value) THEN PyInt(IntValue(value))
    ELSE IF FloatParsesStr(value) THEN PyFloat(FloatValue(value))
    ELSE PyStr(value)

HasEq(setting) == \E i \in 1..Len(setting) : setting[i] = "="
EqAt(setting) == CHOOSE i \in 1..Len(setting) :
                    setting[i] = "=" /\ \A j \in 1..(i - 1) : setting[j] # "="
\* setting.split("=", 1), each side stripped
SettingKey(setting) == StrStrip(SubSeq(setting, 1, EqAt(setting) - 1))
SettingValue(setting) == StrStrip(SubSeq(setting, EqAt(setting) + 1, Len(setting)))

\* The desired dict as a sequence of <<key, value>> in insertion order; a
\* repeated key keeps its position and takes the later value.
RECURSIVE DictPut(_, _, _)
DictPut(dict, k, v) ==
    IF dict = <<>> THEN <<<<k, v>>>>
    ELSE IF Head(dict)[1] = k THEN <<<<k, v>>>> \o Tail(dict)
    ELSE <<Head(dict)>> \o DictPut(Tail(dict), k, v)
RECURSIVE ParseSettings(_, _)
ParseSettings(settings, dict) ==
    IF settings = <<>> THEN [ok |-> TRUE, desired |-> dict]
    ELSE IF ~HasEq(Head(settings)) THEN [ok |-> FALSE, desired |-> dict]
    ELSE ParseSettings(Tail(settings),
                       DictPut(dict, SettingKey(Head(settings)),
                               CoerceValue(SettingValue(Head(settings)))))

\* current.get(k)
DictGetNone(current, k) == None
DictGet(current, k) == IF k \in DOMAIN current THEN current[k] ELSE None

\* {k: v for k, v in desired.items() if current.get(k) != v}
ChangesAll(desired, current) == desired
RECURSIVE Changes(_, _)
Changes(desired, current) ==
    IF desired = <<>> THEN <<>>
    ELSE (IF PyEq(DictGet(current, Head(desired)[1]), Head(desired)[2])
          THEN <<>> ELSE <<Head(desired)>>) \o Changes(Tail(desired), current)

BodyOf(dict) == {dict[i] : i \in 1..Len(dict)}

\* The remote's PUT of a settings bundle: the keys it knows take the value.
PutSettings(current, changes) ==
    [k \in DOMAIN current |->
        IF \E i \in 1..Len(changes) : changes[i][1] = k
        THEN changes[CHOOSE i \in 1..Len(changes) : changes[i][1] = k][2]
        ELSE current[k]]

\* The read / diff / PUT part of _apply_settings, which
\* InitProjectOperation._apply_project_settings repeats with its own label.
ReconcileSettings(e, etype, res, eid, lbl, desired, d, f) ==
    LET get == Req("GET", res, eid, "", {}, {})
        st == St(f, "GET", res, 200)
        lg == <<get>>
        changes == Changes(desired, e.settings)
    IN  IF st = 0 THEN Fin(lg, e, <<>>, ConnectionError)
        ELSE IF ~Ok(st)
        THEN Fin(lg, e, <<ActionResult(etype, eid, lbl, "error", FALSE, <<>>)>>, NoExc)
        ELSE IF changes = <<>>
        THEN Fin(lg, e, <<ActionResult(etype, eid, lbl, "already_set", FALSE, <<>>)>>, NoExc)
        ELSE IF ~Mutates(d)
        THEN Fin(lg, e, <<ActionResult(etype, eid, lbl, WouldOrApplied(d), d, <<>>)>>, NoExc)
        ELSE LET put == Req("PUT", res, eid, "", BodyOf(changes), {})
                 st2 == St(f, "PUT", res, 200)
                 lg2 == Append(lg, put)
             IN  IF st2 = 0 THEN Fin(lg2, e, <<>>, ConnectionError)
                 ELSE IF ~Ok(st2)
                 THEN Fin(lg2, e, <<ActionResult(etype, eid, lbl, "error", FALSE, <<>>)>>, NoExc)
                 ELSE Fin(lg2, [e EXCEPT !.settings = PutSettings(e.settings, changes)],
                          <<ActionResult(etype, eid, lbl, WouldOrApplied(d), d, <<>>)>>, NoExc)

\* _apply_settings; res is "projects" or "groups"
ApplySettings(e, etype, res, eid, a, d, f) ==
    LET parsed == ParseSettings(a.settings, <<>>)
    IN  IF ~parsed.ok
        THEN Fin(<<>>, e, <<ActionResult(etype, eid, <<"project-setting">>, "error", FALSE, <<>>)>>,
                 NoExc)
        ELSE ReconcileSettings(e, etype, res, eid, <<"project-setting">>, parsed.desired, d, f)

ProjectSetting_apply_to_project(e, pid, a, d, f) ==
    ApplySettings(e, "project", "projects", pid, a, d, f)
ProjectSetting_apply_to_group(e, gid, a, d, f) ==
    ApplySettings(e, "group", "groups", gid, a, d, f)

(***************************************************************************)
(* paginate (client.py:102-120).  The remote cuts `items` into pages of    *)
(* per_page items and reports the page count in x-total-pages when         *)
(* reports_total holds.  The result carries the requests issued, the       *)
(* final status and the items gathered.                                    *)
(***************************************************************************)
Min(a, b) == IF a <= b THEN a ELSE b
PageCount(n, per_page) == (n + per_page - 1) \div per_page
PageOf(items, per_page, page) ==
    SubSeq(items, (page - 1) * per_page + 1, Min(page * per_page, Len(items)))

\* `if page >= total_pages: break` (client.py:117)
LastPageExclusive(page, total_pages) == page > total_pages
LastPage(page, total_pages) == page >= total_pages

RECURSIVE PaginateFrom(_, _, _, _, _, _, _, _, _)
PaginateFrom(f, res, ent, items, per_page, reports_total, page, results, lg) ==
    LET get == Req("GET", res, ent, "",
                   {<<<<"per_page">>, PyInt(per_page)>>, <<<<"page">>, PyInt(page)>>}, {})
        st == St(f, "GET", res, 200)
        lg2 == Append(lg, get)
        data == PageOf(items, per_page, page)
        total_pages == IF reports_total THEN PageCount(Len(items), per_page) ELSE page
    IN  IF ~Ok(st) THEN [log |-> lg2, status |-> st, items |-> results]
        ELSE IF data = <<>> THEN [log |-> lg2, status |-> st, items |-> results]
        ELSE IF LastPage(page, total_pages)
        THEN [log |-> lg2, status |-> st, items |-> results \o data]
        ELSE PaginateFrom(f, res, ent, items, per_page, reports_total,
                          page + 1, results \o data, lg2)

Paginate(f, res, ent, items, reports_total) ==
    PaginateFrom(f, res, ent, items, PER_PAGE, reports_total, 1, <<>>, <<>>)

(***************************************************************************)
(* approval-rule (operations/approval_rule.py)                             *)
(***************************************************************************)
UserDirectoryAnyone(username) == IF username = <<"alice">> THEN 7 ELSE 8
\* The remote's user directory: GET /users?username=... (0: no such user)
UserDirectory(username) == CASE username = <<"alice">> -> 7
                             [] username = <<"bob">> -> 8
                             [] OTHER -> 0

Rule(id, name, approvals, users) ==
    [id |-> id, name |-> name, approvals_required |-> approvals, users |-> users]
NoRule == Rule(0, "", 0, {})

FirstNamedNone(rules, rule_name) == NoRule
\* next((r for r in rules if r.get("name") == rule_name), None)
FirstNamed(rules, rule_name) ==
    IF \E i \in 1..Len(rules) : rules[i].name = rule_name
    THEN rules[CHOOSE i \in 1..Len(rules) :
                 rules[i].name = rule_name /\ \A j \in 1..(i - 1) : rules[j].name # rule_name]
    ELSE NoRule

\* _find_rule: an HTTPError of the listing is swallowed and reads as "no rule"
FindRule(e, pid, a, f, reports_total) ==
    LET pg == Paginate(f, "approval_rules", pid, e.rules, reports_total)
    IN  IF pg.status = 0 THEN [log |-> pg.log, rule |-> NoRule, exc |-> ConnectionError]
        ELSE IF ~Ok(pg.status) THEN [log |-> pg.log, rule |-> NoRule, exc |-> NoExc]
        ELSE [log |-> pg.log, rule |-> FirstNamed(pg.items, a.rule_name), exc |-> NoExc]

\* _resolve_users over client.resolve_user: only ValueError is caught
RECURSIVE ResolveUsers(_, _, _, _)
ResolveUsers(identifiers, f, ids, lg) ==
    IF identifiers = <<>> THEN [log |-> lg, ids |-> ids, exc |-> NoExc]
    ELSE LET ident == Head(identifiers)
         IN  IF IntParses(ident)
             THEN ResolveUsers(Tail(identifiers), f, Append(ids, IntValue(ident)), lg)
             ELSE LET get == Req("GET", "users", 0, "", {<<<<"username">>, PyStr(ident)>>}, {})
                      st == St(f, "GET", "users", 200)
                      lg2 == Append(lg, get)
                  IN  IF ~Ok(st) THEN [log |-> lg2, ids |-> ids, exc |-> ExcOf(st)]
                      ELSE IF UserDirectory(ident) = 0
                      THEN ResolveUsers(Tail(identifiers), f, ids, lg2)
                      ELSE ResolveUsers(Tail(identifiers), f,
                                        Append(ids, UserDirectory(ident)), lg2)

SeqToSet(q) == {q[i] : i \in 1..Len(q)}
NextRuleId(rules) == 1 + SeqMax([i \in 1..Len(rules) |-> rules[i].id])

CreateRule(e, pid, a, d, f, lg) ==
    LET lbl == <<"approval-rule", a.rule_name>>
        ru == ResolveUsers(a.add_users, f, <<>>, lg)
        post == Req("POST", "approval_rules", pid, a.rule_name,
                    {<<<<"name">>, PyStr(<<a.rule_name>>)>>,
                     <<<<"approvals_required">>, a.approvals>>}, SeqToSet(ru.ids))
        st == St(f, "POST", "approval_rules", 201)
        lg2 == Append(ru.log, post)
    IN  IF a.approvals = None
        THEN Fin(lg, e, <<ActionResult("project", pid, lbl, "error", FALSE, <<>>)>>, NoExc)
        ELSE IF ru.exc # NoExc THEN Fin(ru.log, e, <<>>, ru.exc)
        ELSE IF ~Mutates(d)
        THEN Fin(ru.log, e, <<ActionResult("project", pid, lbl, WouldOrApplied(d), d, <<>>)>>, NoExc)
        ELSE IF st = 0 THEN Fin(lg2, e, <<>>, ConnectionError)
        ELSE IF ~Ok(st)
        THEN Fin(lg2, e, <<ActionResult("project", pid, lbl, "error", FALSE, <<>>)>>, NoExc)
        ELSE Fin(lg2,
                 [e EXCEPT !.rules = Append(@, Rule(NextRuleId(@), a.rule_name,
                                                    a.approvals.n \div 1000, SeqToSet(ru.ids)))],
                 <<ActionResult("project", pid, lbl, WouldOrApplied(d), d, <<>>)>>, NoExc)

UpdateRule(e, pid, a, d, f, lg, existing) ==
    LET lbl == <<"approval-rule", a.rule_name>>
        current_approvals == existing.approvals_required
        current_user_ids == existing.users
        desired_approvals == IF a.approvals # None THEN a.approvals.n \div 1000
                             ELSE current_approvals
        addr == ResolveUsers(a.add_users, f, <<>>, lg)
        remr == ResolveUsers(a.remove_users, f, <<>>, addr.log)
        desired_user_ids == (current_user_ids \cup SeqToSet(addr.ids)) \ SeqToSet(remr.ids)
        put == Req("PUT", "approval_rules", pid, a.rule_name,
                   {<<<<"approvals_required">>, PyInt(desired_approvals)>>}, desired_user_ids)
        st == St(f, "PUT", "approval_rules", 200)
        lg2 == Append(remr.log, put)
    IN  IF addr.exc # NoExc THEN Fin(addr.log, e, <<>>, addr.exc)
        ELSE IF remr.exc # NoExc THEN Fin(remr.log, e, <<>>, remr.exc)
        ELSE IF current_approvals = desired_approvals /\ current_user_ids = desired_user_ids
        THEN Fin(remr.log, e,
                 <<ActionResult("project", pid, lbl, "already_set", FALSE, <<>>)>>, NoExc)
        ELSE IF ~Mutates(d)
        THEN Fin(remr.log, e,
                 <<ActionResult("project", pid, lbl, WouldOrApplied(d), d, <<>>)>>, NoExc)
        ELSE IF st = 0 THEN Fin(lg2, e, <<>>, ConnectionError)
        ELSE IF ~Ok(st)
        THEN Fin(lg2, e, <<ActionResult("project", pid, lbl, "error", FALSE, <<>>)>>, NoExc)
        ELSE Fin(lg2,
                 [e EXCEPT !.rules = [i \in 1..Len(@) |->
                     IF @[i].id = existing.id
                     THEN Rule(existing.id, existing.name, desired_approvals, desired_user_ids)
                     ELSE @[i]]],
                 <<ActionResult("project", pid, lbl, WouldOrApplied(d), d, <<>>)>>, NoExc)

RECURSIVE WithoutRule(_, _)
WithoutRule(rules, id) ==
    IF rules = <<>> THEN <<>>
    ELSE (IF Head(rules).id = id THEN <<>> ELSE <<Head(rules)>>) \o WithoutRule(Tail(rules), id)

DeleteRule(e, pid, a, d, f, reports_total) ==
    LET lbl == <<"approval-rule", a.rule_name>>
        fr == FindRule(e, pid, a, f, reports_total)
        del == Req("DELETE", "approval_rules", pid, a.rule_name, {}, {})
        st == St(f, "DELETE", "approval_rules", 204)
        lg2 == Append(fr.log, del)
    IN  IF fr.exc # NoExc THEN Fin(fr.log, e, <<>>, fr.exc)
        ELSE IF fr.rule = NoRule
        THEN Fin(fr.log, e, <<ActionResult("project", pid, lbl, "already_set", FALSE, <<>>)>>, NoExc)
        ELSE IF ~Mutates(d)
        THEN Fin(fr.log, e, <<ActionResult("project", pid, lbl, WouldOrApplied(d), d, <<>>)>>, NoExc)
        ELSE IF st = 0 THEN Fin(lg2, e, <<>>, ConnectionError)
        ELSE IF ~Ok(st)
        THEN Fin(lg2, e, <<ActionResult("project", pid, lbl, "error", FALSE, <<>>)>>, NoExc)
        ELSE Fin(lg2, [e EXCEPT !.rules = WithoutRule(@, fr.rule.id)],
                 <<ActionResult("project", pid, lbl, WouldOrApplied(d), d, <<>>)>>, NoExc)

ApprovalRule_apply_to_project(e, pid, a, d, f, reports_total) ==
    IF a.unprotect THEN DeleteRule(e, pid, a, d, f, reports_total)
    ELSE LET fr == FindRule(e, pid, a, f, reports_total)
         IN  IF fr.exc # NoExc THEN Fin(fr.log, e, <<>>, fr.exc)
             ELSE IF fr.rule # NoRule THEN UpdateRule(e, pid, a, d, f, fr.log, fr.rule)
             ELSE CreateRule(e, pid, a, d, f, fr.log)

(***************************************************************************)
(* merge-request-setting (operations/merge_request_setting.py)             *)
(***************************************************************************)
FIELD_MAPPING_Uninverted ==
    (<<"reset_approvals_on_push">> :> [modern |-> <<"retain_approvals_on_push">>, inverted |-> FALSE])
    @@ (<<"disable_overriding_approvers_per_merge_request">> :>
          [modern |-> <<"allow_overrides_to_approver_list_per_merge_request">>, inverted |-> FALSE])
    @@ (<<"merge_requests_author_approval">> :>
          [modern |-> <<"allow_author_approval">>, inverted |-> FALSE])
    @@ (<<"merge_requests_disable_committers_approval">> :>
          [modern |-> <<"allow_committer_approval">>, inverted |-> FALSE])
\* FIELD_MAPPING: legacy field -> (modern field, is_inverted)
FIELD_MAPPING ==
    (<<"reset_approvals_on_push">> :> [modern |-> <<"retain_approvals_on_push">>, inverted |-> TRUE])
    @@ (<<"disable_overriding_approvers_per_merge_request">> :>
          [modern |-> <<"allow_overrides_to_approver_list_per_merge_request">>, inverted |-> TRUE])
    @@ (<<"merge_requests_author_approval">> :>
          [modern |-> <<"allow_author_approval">>, inverted |-> FALSE])
    @@ (<<"merge_requests_disable_committers_approval">> :>
          [modern |-> <<"allow_committer_approval">>, inverted |-> TRUE])

\* An argparse flag "true" / "false" / not given (NotGiven), compared with "true"
NotGiven == "<none>"
FlagEntry(key, flag) == IF flag = NotGiven THEN <<>> ELSE <<<<key, PyBool(flag = "true")>>>>

\* the desired dict of apply_to_project, in the order the code fills it
MRDesired(a) ==
    (IF a.approvals_before_merge = None THEN <<>>
     ELSE <<<<<<"approvals_before_merge">>, a.approvals_before_merge>>>>)
    \o FlagEntry(<<"reset_approvals_on_push">>, a.reset_approvals_on_push)
    \o FlagEntry(<<"disable_overriding_approvers_per_merge_request">>, a.disable_overriding_approvers)
    \o FlagEntry(<<"merge_requests_author_approval">>, a.merge_requests_author_approval)
    \o FlagEntry(<<"merge_requests_disable_committers_approval">>,
                 a.merge_requests_disable_committers_approval)

\* the loop of _try_modern_api that maps and inverts the desired fields
RECURSIVE ModernChanges(_, _)
ModernChanges(desired, current) ==
    IF desired = <<>> THEN <<>>
    ELSE LET legacy_key == Head(desired)[1]
             value == Head(desired)[2]
             rest == ModernChanges(Tail(desired), current)
         IN  IF legacy_key = <<"approvals_before_merge">> THEN rest
             ELSE IF legacy_key \in DOMAIN FIELD_MAPPING
             THEN LET m == FIELD_MAPPING[legacy_key]
                      v == IF m.inverted THEN PyNot(value) ELSE value
                  IN  (IF PyEq(DictGet(current, m.modern), v) THEN <<>>
                       ELSE <<<<m.modern, v>>>>) \o rest
             ELSE (IF PyEq(DictGet(current, legacy_key), value) THEN <<>>
                   ELSE <<<<legacy_key, value>>>>) \o rest

\* _use_legacy_api
UseLegacyApi(e, pid, desired, d, f, lg0) ==
    LET lbl == <<"merge-request-setting">>
        get == Req("GET", "approvals", pid, "", {}, {})
        st == St(f, "GET", "approvals", IF e.mr_legacy.present THEN 200 ELSE 404)
        lg == Append(lg0, get)
        changes == Changes(desired, e.mr_legacy.vals)
        post == Req("POST", "approvals", pid, "", BodyOf(changes), {})
        st2 == St(f, "POST", "approvals", 201)
        lg2 == Append(lg, post)
    IN  IF st = 0 THEN Fin(lg, e, <<>>, ConnectionError)
        ELSE IF ~Ok(st)
        THEN Fin(lg, e, <<ActionResult("project", pid, lbl, "error", FALSE, <<>>)>>, NoExc)
        ELSE IF changes = <<>>
        THEN Fin(lg, e, <<ActionResult("project", pid, lbl, "already_set", FALSE, <<>>)>>, NoExc)
        ELSE IF ~Mutates(d)
        THEN Fin(lg, e, <<ActionResult("project", pid, lbl, WouldOrApplied(d), d, <<>>)>>, NoExc)
        ELSE IF st2 = 0 THEN Fin(lg2, e, <<>>, ConnectionError)
        ELSE IF ~Ok(st2)
        THEN Fin(lg2, e, <<ActionResult("project", pid, lbl, "error", FALSE, <<>>)>>, NoExc)
        ELSE Fin(lg2, [e EXCEPT !.mr_legacy.vals = PutSettings(@, changes)],
                 <<ActionResult("project", pid, lbl, WouldOrApplied(d), d, <<>>)>>, NoExc)

MergeRequestSettingLegacyOnly(e, pid, a, d, f) ==
    UseLegacyApi(e, pid, MRDesired(a), d, f, <<>>)
\* apply_to_project with _try_modern_api inlined: a 404 of the modern GET
\* hands over to the legacy API
MergeRequestSetting_apply_to_project(e, pid, a, d, f) ==
    LET lbl == <<"merge-request-setting">>
        desired == MRDesired(a)
        get == Req("GET", "merge_request_approval_settings", pid, "", {}, {})
        st == St(f, "GET", "merge_request_approval_settings",
                 IF e.mr_modern.present THEN 200 ELSE 404)
        lg == <<get>>
        changes == ModernChanges(desired, e.mr_modern.vals)
        put == Req("PUT", "merge_request_approval_settings", pid, "", BodyOf(changes), {})
        st2 == St(f, "PUT", "merge_request_approval_settings", 200)
        lg2 == Append(lg, put)
    IN  IF desired = <<>>
        THEN Fin(<<>>, e, <<ActionResult("project", pid, lbl, "skipped", FALSE, <<>>)>>, NoExc)
        ELSE IF st = 0 THEN Fin(lg, e, <<>>, ConnectionError)
        ELSE IF st = 404 THEN UseLegacyApi(e, pid, desired, d, f, lg)
        ELSE IF ~Ok(st)
        THEN Fin(lg, e, <<ActionResult("project", pid, lbl, "error", FALSE, <<>>)>>, NoExc)
        ELSE IF changes = <<>>
        THEN Fin(lg, e, <<ActionResult("project", pid, lbl, "already_set", FALSE, <<>>)>>, NoExc)
        ELSE IF ~Mutates(d)
        THEN Fin(lg, e, <<ActionResult("project", pid, lbl, WouldOrApplied(d), d, <<>>)>>, NoExc)
        ELSE IF st2 = 0 THEN Fin(lg2, e, <<>>, ConnectionError)
        ELSE IF ~Ok(st2)
        THEN Fin(lg2, e, <<ActionResult("project", pid, lbl, "error", FALSE, <<>>)>>, NoExc)
        ELSE Fin(lg2, [e EXCEPT !.mr_modern.vals = PutSettings(@, changes)],
                 <<ActionResult("project", pid, lbl, WouldOrApplied(d), d, <<>>)>>, NoExc)

(***************************************************************************)
(* init-project (operations/init_project.py)                               *)
(***************************************************************************)
DEFAULT_PROJECT_SETTINGS ==
    << <<<<"only_allow_merge_if_pipeline_succeeds">>, PyBool(TRUE)>>,
       <<<<"only_allow_merge_if_all_discussions_are_resolved">>, PyBool(TRUE)>>,
       <<<<"remove_source_branch_after_merge">>, PyBool(TRUE)>>,
       <<<<"merge_pipelines_enabled">>, PyBool(TRUE)>>,
       <<<<"issue_branch_template">>, PyStr(<<"feature/%{id}-%{title}">>)>>,
       <<<<"forking_access_level">>, PyStr(<<"disabled">>)>>,
       <<<<"pages_access_level">>, PyStr(<<"private">>)>>,
       <<<<"package_registry_access_level">>, PyStr(<<"private">>)>>,
       <<<<"security_and_compliance_access_level">>, PyStr(<<"private">>)>>,
       <<<<"auto_devops_enabled">>, PyBool(FALSE)>> >>
DEFAULT_MR_SETTINGS == << <<<<"reset_approvals_on_push">>, PyBool(TRUE)>> >>
DEFAULT_PROTECTED_BRANCHES ==
    << [branch |-> "main", push |-> ACCESS_LEVELS.maintainer,
        merge |-> ACCESS_LEVELS.maintainer, allow_force_push |-> FALSE],
       [branch |-> "release/*", push |-> ACCESS_LEVELS.maintainer,
        merge |-> ACCESS_LEVELS.maintainer, allow_force_push |-> TRUE] >>
DEFAULT_PROTECTED_TAGS ==
    << [tag |-> "rc*", create |-> ACCESS_LEVELS.maintainer],
       [tag |-> "v*", create |-> ACCESS_LEVELS.maintainer] >>
DEFAULT_RELEASE_BRANCH == "release/0.0.1"
DEFAULT_RELEASE_SOURCE == "main"
DEFAULT_TEMPLATES == <<"bug.md", "chore.md", "docs.md", "feature.md">>

\* the bundled template text (gl_settings/templates/<name>)
TemplateContent(name) == <<"text of", name>>

\* _apply_mr_settings_legacy: the whole body sits in one try block
ApplyMrSettingsLegacy(e, pid, d, f, lg0) ==
    LET lbl == <<"init-project:mr-settings">>
        get == Req("GET", "approvals", pid, "", {}, {})
        st == St(f, "GET", "approvals", IF e.mr_legacy.present THEN 200 ELSE 404)
        lg == Append(lg0, get)
        post == Req("POST", "approvals", pid, "", BodyOf(DEFAULT_MR_SETTINGS), {})
        st2 == St(f, "POST", "approvals", 201)
        lg2 == Append(lg, post)
        err(l) == Fin(l, e, <<ActionResult("project", pid, lbl, "error", FALSE, <<>>)>>, NoExc)
    IN  IF st = 0 THEN Fin(lg, e, <<>>, ConnectionError)
        ELSE IF ~Ok(st) THEN err(lg)
        ELSE IF PyEq(DictGet(e.mr_legacy.vals, <<"reset_approvals_on_push">>), PyBool(TRUE))
        THEN Fin(lg, e, <<ActionResult("project", pid, lbl, "already_set", FALSE, <<>>)>>, NoExc)
        ELSE IF ~Mutates(d)
        THEN Fin(lg, e, <<ActionResult("project", pid, lbl, WouldOrApplied(d), d, <<>>)>>, NoExc)
        ELSE IF st2 = 0 THEN Fin(lg2, e, <<>>, ConnectionError)
        ELSE IF ~Ok(st2) THEN err(lg2)
        ELSE Fin(lg2, [e EXCEPT !.mr_legacy.vals = PutSettings(@, DEFAULT_MR_SETTINGS)],
                 <<ActionResult("project", pid, lbl, WouldOrApplied(d), d, <<>>)>>, NoExc)

\* current.get("retain_approvals_on_push", True): the default only replaces
\* a missing key, a null stays None
GetOrTrue(current, k) == IF k \in DOMAIN current THEN current[k] ELSE PyBool(TRUE)

\* _apply_mr_settings: GET and PUT share one try block, so a 404 from
\* either of them hands over to the legacy API
ApplyMrSettings(e, pid, d, f) ==
    LET lbl == <<"init-project:mr-settings">>
        get == Req("GET", "merge_request_approval_settings", pid, "", {}, {})
        st == St(f, "GET", "merge_request_approval_settings",
                 IF e.mr_modern.present THEN 200 ELSE 404)
        lg == <<get>>
        current_reset == PyNot(GetOrTrue(e.mr_modern.vals, <<"retain_approvals_on_push">>))
        desired_reset == PyBool(TRUE)
        body == << <<<<"retain_approvals_on_push">>, PyNot(desired_reset)>> >>
        put == Req("PUT", "merge_request_approval_settings", pid, "", BodyOf(body), {})
        st2 == St(f, "PUT", "merge_request_approval_settings", 200)
        lg2 == Append(lg, put)
        err(l) == Fin(l, e, <<ActionResult("project", pid, lbl, "error", FALSE, <<>>)>>, NoExc)
    IN  IF st = 0 THEN Fin(lg, e, <<>>, ConnectionError)
        ELSE IF st = 404 THEN ApplyMrSettingsLegacy(e, pid, d, f, lg)
        ELSE IF ~Ok(st) THEN err(lg)
        ELSE IF PyEq(current_reset, desired_reset)
        THEN Fin(lg, e, <<ActionResult("project", pid, lbl, "already_set", FALSE, <<>>)>>, NoExc)
        ELSE IF ~Mutates(d)
        THEN Fin(lg, e, <<ActionResult("project", pid, lbl, WouldOrApplied(d), d, <<>>)>>, NoExc)
        ELSE IF st2 = 0 THEN Fin(lg2, e, <<>>, ConnectionError)
        ELSE IF st2 = 404 THEN ApplyMrSettingsLegacy(e, pid, d, f, lg2)
        ELSE IF ~Ok(st2) THEN err(lg2)
        ELSE Fin(lg2, [e EXCEPT !.mr_modern.vals = PutSettings(@, body)],
                 <<ActionResult("project", pid, lbl, WouldOrApplied(d), d, <<>>)>>, NoExc)

DefaultBranchOfMain(e) == PyStr(<<"main">>)
\* project.get("default_branch", "main")
DefaultBranchOf(e) == IF <<"default_branch">> \in DOMAIN e.settings
                      THEN e.settings[<<"default_branch">>]
                      ELSE PyStr(<<"main">>)

\* _create_release_branch
CreateReleaseBranch(e, pid, d, f) ==
    LET branch_name == DEFAULT_RELEASE_BRANCH
        lbl == <<"init-project:release-branch", branch_name>>
        get1 == Req("GET", "repository/branches", pid, branch_name, {}, {})
        st1 == St(f, "GET", "repository/branches",
                  IF branch_name \in e.branches THEN 200 ELSE 404)
        branch_exists == Ok(st1)
        get2 == Req("GET", "projects", pid, "", {}, {})
        st2 == St(f, "GET", "projects", 200)
        lg2 == <<get1, get2>>
        current_default == DefaultBranchOf(e)
        is_default == PyEq(current_default, PyStr(<<branch_name>>))
        post == Req("POST", "repository/branches", pid, branch_name,
                    {<<<<"branch">>, PyStr(<<branch_name>>)>>,
                     <<<<"ref">>, PyStr(<<DEFAULT_RELEASE_SOURCE>>)>>}, {})
        st3 == St(f, "POST", "repository/branches",
                  IF DEFAULT_RELEASE_SOURCE \in e.branches /\ branch_name \notin e.branches
                  THEN 201 ELSE 400)
        lg3 == IF branch_exists THEN lg2 ELSE Append(lg2, post)
        e3 == IF branch_exists THEN e ELSE [e EXCEPT !.branches = @ \cup {branch_name}]
        body == << <<<<"default_branch">>, PyStr(<<branch_name>>)>> >>
        put == Req("PUT", "projects", pid, "", BodyOf(body), {})
        st4 == St(f, "PUT", "projects", 200)
        lg4 == Append(lg3, put)
        err(l, ent) == Fin(l, ent, <<ActionResult("project", pid, lbl, "error", FALSE, <<>>)>>, NoExc)
        done(l, ent) == Fin(l, ent,
                            <<ActionResult("project", pid, lbl, WouldOrApplied(d), d, <<>>)>>, NoExc)
    IN  IF st1 = 0 THEN Fin(<<get1>>, e, <<>>, ConnectionError)
        ELSE IF ~Ok(st1) /\ st1 # 404 THEN err(<<get1>>, e)
        ELSE IF st2 = 0 THEN Fin(lg2, e, <<>>, ConnectionError)
        ELSE IF ~Ok(st2) THEN err(lg2, e)
        ELSE IF branch_exists /\ is_default
        THEN Fin(lg2, e, <<ActionResult("project", pid, lbl, "already_set", FALSE, <<>>)>>, NoExc)
        ELSE IF ~Mutates(d) THEN done(lg2, e)
        ELSE IF ~branch_exists /\ st3 = 0 THEN Fin(lg3, e, <<>>, ConnectionError)
        ELSE IF ~branch_exists /\ ~Ok(st3) THEN err(lg3, e)
        ELSE IF is_default THEN done(lg3, e3)
        ELSE IF st4 = 0 THEN Fin(lg4, e3, <<>>, ConnectionError)
        ELSE IF ~Ok(st4) THEN err(lg4, e3)
        ELSE done(lg4, [e3 EXCEPT !.settings = PutSettings(@, body)])

AbsentFile == [present |-> FALSE, content |-> <<>>]
FileRec(content) == [present |-> TRUE, content |-> content]

\* _install_template.  The file store is the view of the default branch.
InstallTemplate(e, pid, template_name, d, f) ==
    LET lbl == <<"init-project:template", template_name>>
        template_content == TemplateContent(template_name)
        get0 == Req("GET", "projects", pid, "", {}, {})
        st0 == St(f, "GET", "projects", 200)
        default_branch == IF Ok(st0) THEN DefaultBranchOf(e) ELSE PyStr(<<"main">>)
        existing == e.files[template_name]
        get1 == Req("GET", "repository/files", pid, template_name,
                    {<<<<"ref">>, default_branch>>}, {})
        st1 == St(f, "GET", "repository/files", IF existing.present THEN 200 ELSE 404)
        lg1 == <<get0, get1>>
        body(msg) == {<<<<"branch">>, default_branch>>,
                      <<<<"content">>, PyStr(template_content)>>,
                      <<<<"commit_message">>, PyStr(<<msg, template_name>>)>>,
                      <<<<"encoding">>, PyStr(<<"text">>)>>}
        put == Req("PUT", "repository/files", pid, template_name,
                   body("Update issue template:"), {})
        st2 == St(f, "PUT", "repository/files", 200)
        lg2 == Append(lg1, put)
        err(l) == Fin(l, e, <<ActionResult("project", pid, lbl, "error", FALSE, <<>>)>>, NoExc)
        done(l, ent) == Fin(l, ent,
                            <<ActionResult("project", pid, lbl, WouldOrApplied(d), d, <<>>)>>, NoExc)
        create(l) ==
            LET post == Req("POST", "repository/files", pid, template_name,
                            body("Add issue template:"), {})
                st3 == St(f, "POST", "repository/files", IF existing.present THEN 400 ELSE 201)
                lg3 == Append(l, post)
            IN  IF ~Mutates(d) THEN done(l, e)
                ELSE IF st3 = 0 THEN Fin(lg3, e, <<>>, ConnectionError)
                ELSE IF ~Ok(st3) THEN err(lg3)
                ELSE done(lg3, [e EXCEPT !.files[template_name] = FileRec(template_content)])
    IN  IF st0 = 0 THEN Fin(<<get0>>, e, <<>>, ConnectionError)
        ELSE IF st1 = 0 THEN Fin(lg1, e, <<>>, ConnectionError)
        ELSE IF st1 = 404 THEN create(lg1)
        ELSE IF ~Ok(st1) THEN err(lg1)
        ELSE IF StrStrip(existing.content) = StrStrip(template_content)
        THEN Fin(lg1, e, <<ActionResult("project", pid, lbl, "already_set", FALSE, <<>>)>>, NoExc)
        ELSE IF ~Mutates(d) THEN done(lg1, e)
        ELSE IF st2 = 0 THEN Fin(lg2, e, <<>>, ConnectionError)
        ELSE IF st2 = 404 THEN create(lg2)
        ELSE IF ~Ok(st2) THEN err(lg2)
        ELSE done(lg2, [e EXCEPT !.files[template_name] = FileRec(template_content)])

\* Sequencing inside apply_to_project: the next step runs on the state the
\* previous one left, unless an exception is propagating.
AndThen(r, step(_)) ==
    IF r.raised # NoExc THEN r
    ELSE LET r2 == step(r.ent)
         IN  Fin(r.log \o r2.log, r2.ent, r.recorded \o r2.recorded, r2.raised)

\* the loops of apply_to_project over the DEFAULT_* lists, in list order
RECURSIVE ProtectBranches(_, _, _, _, _)
ProtectBranches(r, items, pid, d, f) ==
    IF items = <<>> THEN r
    ELSE LET one(ent) == PBProtect(ent, <<"init-project:branch", Head(items).branch>>,
                                   pid, Head(items), d, f)
         IN  ProtectBranches(AndThen(r, one), Tail(items), pid, d, f)
RECURSIVE ProtectTags(_, _, _, _, _)
ProtectTags(r, items, pid, d, f) ==
    IF items = <<>> THEN r
    ELSE LET one(ent) == PTProtect(ent, <<"init-project:tag", Head(items).tag>>,
                                   pid, Head(items), d, f)
         IN  ProtectTags(AndThen(r, one), Tail(items), pid, d, f)
RECURSIVE InstallTemplates(_, _, _, _, _)
InstallTemplates(r, items, pid, d, f) ==
    IF items = <<>> THEN r
    ELSE LET one(ent) == InstallTemplate(ent, pid, Head(items), d, f)
         IN  InstallTemplates(AndThen(r, one), Tail(items), pid, d, f)

CountAction(results, actions) == Cardinality({i \in 1..Len(results) : results[i].action \in actions})

\* the action of the summary outcome (init_project.py:139)
CompositeActionDry(errors, d) == IF errors # 0 THEN "error" ELSE WouldOrApplied(d)
CompositeActionApplied(errors, d) == "applied"
CompositeAction(errors, d) == IF errors = 0 THEN "applied" ELSE "error"

\* init_project.py:103-129, one operator per step
StepSettings(r, a, pid, d, f) ==
    LET s1(ent) == ReconcileSettings(ent, "project", "projects", pid,
                                     <<"init-project:settings">>, DEFAULT_PROJECT_SETTINGS, d, f)
    IN  IF a.skip_settings THEN r ELSE AndThen(r, s1)
StepMrSettings(r, a, pid, d, f) ==
    LET s2(ent) == ApplyMrSettings(ent, pid, d, f)
    IN  IF a.skip_mr_settings THEN r ELSE AndThen(r, s2)
StepReleaseBranch(r, a, pid, d, f) ==
    LET s3(ent) == CreateReleaseBranch(ent, pid, d, f)
    IN  IF a.skip_release_branch THEN r ELSE AndThen(r, s3)
StepBranches(r, a, pid, d, f) ==
    IF a.skip_branches THEN r ELSE ProtectBranches(r, DEFAULT_PROTECTED_BRANCHES, pid, d, f)
StepTags(r, a, pid, d, f) ==
    IF a.skip_tags THEN r ELSE ProtectTags(r, DEFAULT_PROTECTED_TAGS, pid, d, f)
StepTemplates(r, a, pid, d, f) ==
    IF a.skip_templates THEN r ELSE InstallTemplates(r, DEFAULT_TEMPLATES, pid, d, f)

\* init_project.py:131-143
Summarize(r, pid, d) ==
    IF r.raised # NoExc THEN r
    ELSE Fin(r.log, r.ent,
             Append(r.recorded,
                    ActionResult("project", pid, <<"init-project">>,
                                 CompositeAction(CountAction(r.recorded, {"error"}), d), d,
                                 <<CountAction(r.recorded, {"applied", "would_apply"}),
                                   CountAction(r.recorded, {"already_set"}),
                                   CountAction(r.recorded, {"error"})>>)),
             NoExc)

InitProject_apply_to_project(e, pid, a, d, f) ==
    Summarize(
        StepTemplates(
            StepTags(
                StepBranches(
                    StepReleaseBranch(
                        StepMrSettings(
                            StepSettings(Fin(<<>>, e, <<>>, NoExc), a, pid, d, f),
                            a, pid, d, f),
                        a, pid, d, f),
                    a, pid, d, f),
                a, pid, d, f),
            a, pid, d, f),
        pid, d)

(***************************************************************************)
(* Remote states and operation instances the model starts from             *)
(***************************************************************************)
Branches == {"main", "release/*"}
Tags == {"rc*", "v*"}
Templates == {DEFAULT_TEMPLATES[i] : i \in 1..Len(DEFAULT_TEMPLATES)}

SettingsOf(dict) == [k \in {dict[i][1] : i \in 1..Len(dict)} |->
                        dict[CHOOSE i \in 1..Len(dict) : dict[i][1] = k][2]]

\* the settings bundle of a new project or group
FreshSettings ==
    SettingsOf(<< <<<<"default_branch">>, PyStr(<<"main">>)>>,
                  <<<<"visibility">>, PyStr(<<"public">>)>>,
                  <<<<"lfs_enabled">>, PyBool(FALSE)>>,
                  <<<<"build_timeout">>, PyInt(1)>>,
                  <<<<"only_allow_merge_if_pipeline_succeeds">>, PyBool(FALSE)>>,
                  <<<<"only_allow_merge_if_all_discussions_are_resolved">>, PyBool(FALSE)>>,
                  <<<<"remove_source_branch_after_merge">>, PyBool(TRUE)>>,
                  <<<<"merge_pipelines_enabled">>, PyBool(FALSE)>>,
                  <<<<"issue_branch_template">>, None>>,
                  <<<<"forking_access_level">>, PyStr(<<"enabled">>)>>,
                  <<<<"pages_access_level">>, PyStr(<<"private">>)>>,
                  <<<<"package_registry_access_level">>, PyStr(<<"enabled">>)>>,
                  <<<<"security_and_compliance_access_level">>, PyStr(<<"private">>)>>,
                  <<<<"auto_devops_enabled">>, PyBool(TRUE)>> >>)

MrModernVals(retain, overrides, author, committer) ==
    SettingsOf(<< <<<<"retain_approvals_on_push">>, retain>>,
                  <<<<"allow_overrides_to_approver_list_per_merge_request">>, overrides>>,
                  <<<<"allow_author_approval">>, author>>,
                  <<<<"allow_committer_approval">>, committer>> >>)
MrLegacyVals(before, reset, disable, author, committers) ==
    SettingsOf(<< <<<<"approvals_before_merge">>, before>>,
                  <<<<"reset_approvals_on_push">>, reset>>,
                  <<<<"disable_overriding_approvers_per_merge_request">>, disable>>,
                  <<<<"merge_requests_author_approval">>, author>>,
                  <<<<"merge_requests_disable_committers_approval">>, committers>> >>)

FreshProject ==
    [pb |-> [b \in Branches |-> AbsentPB],
     pt |-> [t \in Tags |-> AbsentPT],
     settings |-> FreshSettings,
     rules |-> <<>>,
     mr_modern |-> [present |-> TRUE,
                    vals |-> MrModernVals(PyBool(TRUE), PyBool(TRUE), PyBool(FALSE), PyBool(TRUE))],
     mr_legacy |-> [present |-> TRUE,
                    vals |-> MrLegacyVals(PyInt(0), PyBool(FALSE), PyBool(FALSE),
                                          PyBool(FALSE), PyBool(FALSE))],
     branches |-> {"main"},
     files |-> [t \in Templates |-> AbsentFile]]

\* a project on which init-project has nothing left to do
InitializedProject ==
    [FreshProject EXCEPT
        !.pb = [b \in Branches |->
                  IF b = "main" THEN PBRec(<<40>>, <<40>>, FALSE) ELSE PBRec(<<40>>, <<40>>, TRUE)],
        !.pt = [t \in Tags |-> PTRec(<<40>>)],
        !.settings = PutSettings(PutSettings(@, DEFAULT_PROJECT_SETTINGS),
                                 << <<<<"default_branch">>, PyStr(<<DEFAULT_RELEASE_BRANCH>>)>> >>),
        !.mr_modern.vals = MrModernVals(PyBool(FALSE), PyBool(TRUE), PyBool(FALSE), PyBool(TRUE)),
        !.branches = {"main", DEFAULT_RELEASE_BRANCH},
        !.files = [t \in Templates |-> FileRec(TemplateContent(t) \o <<" ">>)]]

\* a project set up by hand: some parts match, some differ, old GitLab API
DriftedProject ==
    [InitializedProject EXCEPT
        !.pb["main"] = PBRec(<<30, 40>>, <<30>>, FALSE),
        !.pt["v*"] = PTRec(<<30>>),
        !.settings = PutSettings(@, << <<<<"auto_devops_enabled">>, PyBool(TRUE)>>,
                                       <<<<"default_branch">>, PyStr(<<"main">>)>> >>),
        !.mr_modern.present = FALSE,
        !.files["bug.md"] = FileRec(<<"old text">>),
        !.files["docs.md"] = AbsentFile]

PBSamples == {AbsentPB, PBRec(<<40>>, <<40>>, FALSE), PBRec(<<30>>, <<40>>, FALSE),
              PBRec(<<30, 40>>, <<40>>, FALSE), PBRec(<<>>, <<>>, FALSE)}
PTSamples == {AbsentPT, PTRec(<<40>>), PTRec(<<30>>), PTRec(<<30, 40>>)}
SettingsSamples ==
    {FreshSettings,
     PutSettings(FreshSettings, << <<<<"visibility">>, PyStr(<<"private">>)>>,
                                   <<<<"lfs_enabled">>, PyBool(TRUE)>>,
                                   <<<<"build_timeout">>, PyInt(20)>> >>),
     PutSettings(FreshSettings, << <<<<"visibility">>, PyStr(<<"private">>)>> >>)}
RulesSamples ==
    {<<>>, <<Rule(1, "R", 1, {})>>, <<Rule(1, "R", 2, {7})>>,
     <<Rule(1, "Other", 1, {8}), Rule(2, "R", 1, {7, 8})>>}
MrSamples ==
    {[modern |-> [present |-> TRUE,
                  vals |-> MrModernVals(PyBool(TRUE), PyBool(TRUE), PyBool(FALSE), PyBool(TRUE))],
      legacy |-> FreshProject.mr_legacy],
     [modern |-> [present |-> TRUE,
                  vals |-> MrModernVals(PyBool(FALSE), PyBool(FALSE), PyBool(TRUE), PyBool(FALSE))],
      legacy |-> FreshProject.mr_legacy],
     [modern |-> [present |-> FALSE, vals |-> FreshProject.mr_modern.vals],
      legacy |-> FreshProject.mr_legacy],
     [modern |-> [present |-> FALSE, vals |-> FreshProject.mr_modern.vals],
      legacy |-> [present |-> TRUE,
                  vals |-> MrLegacyVals(PyInt(2), PyBool(TRUE), PyBool(TRUE),
                                        PyBool(TRUE), PyBool(TRUE))]],
     [modern |-> [present |-> FALSE, vals |-> FreshProject.mr_modern.vals],
      legacy |-> [present |-> FALSE, vals |-> FreshProject.mr_legacy.vals]]}

\* the states of the entity an operation of the given kind may meet
EntitySamples(kind) ==
    CASE kind = "protect-branch" -> {[FreshProject EXCEPT !.pb["main"] = x] : x \in PBSamples}
      [] kind = "protect-tag" -> {[FreshProject EXCEPT !.pt["v*"] = x] : x \in PTSamples}
      [] kind = "project-setting" -> {[FreshProject EXCEPT !.settings = x] : x \in SettingsSamples}
      [] kind = "approval-rule" -> {[FreshProject EXCEPT !.rules = x] : x \in RulesSamples}
      [] kind = "merge-request-setting" ->
            {[FreshProject EXCEPT !.mr_modern = x.modern, !.mr_legacy = x.legacy] : x \in MrSamples}
      [] OTHER -> {FreshProject, InitializedProject, DriftedProject}

(***************************************************************************)
(* Operation instances (the parsed command line of one run)                *)
(***************************************************************************)
PBArgs(push, merge, force, unprotect) ==
    [branch |-> "main", push |-> push, merge |-> merge,
     allow_force_push |-> force, unprotect |-> unprotect]
ProtectBranchInstances ==
    {[kind |-> "protect-branch", a |-> x] :
        x \in {PBArgs(40, 40, FALSE, FALSE), PBArgs(30, 40, FALSE, FALSE),
               PBArgs(40, 30, TRUE, FALSE), PBArgs(0, 0, FALSE, FALSE),
               PBArgs(40, 40, FALSE, TRUE)}}
ProtectTagInstances ==
    {[kind |-> "protect-tag", a |-> [tag |-> "v*", create |-> c, unprotect |-> u]] :
        c \in {40, 30}, u \in BOOLEAN}
ProjectSettingInstances ==
    {[kind |-> "project-setting", a |-> [settings |-> x]] :
        x \in {<< <<"visibility", "=", "private">> >>,
               << <<"lfs_enabled", "=", "T", "r", "u", "e">> >>,
               << <<"visibility", " ", "=", " ", "private">>, <<"build_timeout", "=", "2", "0">> >>,
               << <<"build_timeout", "=", "1">> >>,
               << <<"visibility", "=", "private">>, <<"lfs_enabled">> >>}}
ARArgs(approvals, add, remove, unprotect) ==
    [rule_name |-> "R", approvals |-> approvals, add_users |-> add,
     remove_users |-> remove, unprotect |-> unprotect]
ApprovalRuleInstances ==
    {[kind |-> "approval-rule", a |-> x] :
        x \in {ARArgs(PyInt(2), <<>>, <<>>, FALSE),
               ARArgs(None, <<>>, <<>>, FALSE),
               ARArgs(PyInt(1), << <<"alice">>, <<"7">> >>, <<>>, FALSE),
               ARArgs(PyInt(1), << <<"ghost">>, <<"alice">> >>, <<>>, FALSE),
               ARArgs(None, << <<"ghost">>, <<"bob">> >>, << <<"7">> >>, FALSE),
               ARArgs(PyInt(2), << <<"alice">> >>, << <<"alice">> >>, FALSE),
               ARArgs(None, <<>>, <<>>, TRUE)}}
MRArgs(before, reset, disable, author, committers) ==
    [approvals_before_merge |-> before, reset_approvals_on_push |-> reset,
     disable_overriding_approvers |-> disable, merge_requests_author_approval |-> author,
     merge_requests_disable_committers_approval |-> committers]
MergeRequestSettingInstances ==
    {[kind |-> "merge-request-setting", a |-> x] :
        x \in {MRArgs(None, NotGiven, NotGiven, NotGiven, NotGiven),
               MRArgs(None, "true", NotGiven, NotGiven, NotGiven),
               MRArgs(None, "false", "false", "false", "false"),
               MRArgs(PyInt(2), NotGiven, NotGiven, NotGiven, NotGiven),
               MRArgs(PyInt(2), "false", NotGiven, "true", NotGiven),
               MRArgs(None, "true", "true", "true", "true")}}
IPArgs(s1, s2, s3, s4, s5, s6) ==
    [skip_settings |-> s1, skip_mr_settings |-> s2, skip_release_branch |-> s3,
     skip_branches |-> s4, skip_tags |-> s5, skip_templates |-> s6]
InitProjectInstances ==
    {[kind |-> "init-project", a |-> x] :
        x \in {IPArgs(FALSE, FALSE, FALSE, FALSE, FALSE, FALSE),
               IPArgs(TRUE, TRUE, TRUE, TRUE, TRUE, TRUE),
               IPArgs(FALSE, FALSE, TRUE, TRUE, TRUE, TRUE),
               IPArgs(TRUE, TRUE, FALSE, FALSE, TRUE, TRUE),
               IPArgs(TRUE, TRUE, TRUE, TRUE, FALSE, FALSE)}}
OpInstances == ProtectBranchInstances \cup ProtectTagInstances \cup ProjectSettingInstances
               \cup ApprovalRuleInstances \cup MergeRequestSettingInstances
               \cup InitProjectInstances

\* applies_to_group (operations/base.py:65, project_setting.py:29)
AppliesToGroup(o) == o.kind = "project-setting"

(***************************************************************************)
(* Faults: during one application the remote answers every request of one  *)
(* method and resource with an error status (0: connection failure).       *)
(***************************************************************************)
FaultStatuses == {403, 404, 0}
ResourcesOf(kind) ==
    CASE kind = "protect-branch" -> {"protected_branches"}
      [] kind = "protect-tag" -> {"protected_tags"}
      [] kind = "project-setting" -> {"projects", "groups"}
      [] kind = "approval-rule" -> {"approval_rules", "users"}
      [] kind = "merge-request-setting" -> {"merge_request_approval_settings", "approvals"}
      [] OTHER -> {"projects", "merge_request_approval_settings", "approvals",
                   "repository/branches", "protected_branches", "protected_tags",
                   "repository/files"}
MethodsOf(res) ==
    CASE res \in {"protected_branches", "protected_tags"} -> {"GET", "DELETE", "POST"}
      [] res \in {"projects", "groups", "merge_request_approval_settings"} -> {"GET", "PUT"}
      [] res = "approval_rules" -> {"GET", "POST", "PUT", "DELETE"}
      [] res = "users" -> {"GET"}
      [] res = "repository/files" -> {"GET", "PUT", "POST"}
      [] OTHER -> {"GET", "POST"}
FaultRules(kind) ==
    {NoFault} \cup UNION {{FaultRule(m, res, st) : m \in MethodsOf(res), st \in FaultStatuses} :
                            res \in ResourcesOf(kind)}

(***************************************************************************)
(* SpecOps: one run applies one operation instance to one entity; a second *)
(* run with the same command line may follow on the state the first left.  *)
(***************************************************************************)
TheProject == 10
TheGroup == 1
NoRun == [log |-> <<>>, recorded |-> <<>>, raised |-> NoExc, fault |-> NoFault]
NoTarget == [type |-> "none", id |-> 0]
NoFilter == [given |-> FALSE, pat |-> <<>>]

TransportIdle ==
    /\ max_retries = DEFAULT_MAX_RETRIES
    /\ attempt = 0
    /\ t_pc = "idle"
    /\ trace = <<>>
    /\ sleeps = <<>>
    /\ t_exc = NoExc
    /\ last_exception = NoExc

\* main() has not been entered and no helper function has returned
NoUrl == <<>>
NotExited == [returned |-> FALSE, code |-> 0]
NothingReturned == [called |-> FALSE, value |-> <<>>]
MainIdle ==
    /\ token = None
    /\ target_url = NoUrl
    /\ exit_code = NotExited
    /\ returned = NothingReturned

InitOps ==
    /\ TransportIdle
    /\ MainIdle
    /\ dry_run \in BOOLEAN
    /\ op \in OpInstances
    /\ \E e \in EntitySamples(op.kind),
          g \in (IF op.kind = "project-setting" THEN SettingsSamples ELSE {FreshSettings}),
          rt \in (IF op.kind = "approval-rule" THEN BOOLEAN ELSE {TRUE}) :
          remote = [ent |-> (TheProject :> e) @@ (TheGroup :> [FreshProject EXCEPT !.settings = g]),
                    reports_total |-> rt]
    /\ log = <<>>
    /\ recorded = <<>>
    /\ raised = NoExc
    /\ fault = NoFault
    /\ calls = <<>>
    /\ phase = "fresh"
    /\ prev = NoRun
    /\ target = NoTarget
    /\ filter_pattern = NoFilter

\* the bookkeeping of one application r of the operation to entity eid
Commit(eid, r, f) ==
    /\ remote' = [remote EXCEPT !.ent[eid] = r.ent]
    /\ log' = r.log
    /\ recorded' = r.recorded
    /\ raised' = r.raised
    /\ fault' = f
    /\ prev' = [log |-> log, recorded |-> recorded, raised |-> raised, fault |-> fault]
    /\ phase' = IF phase = "fresh" THEN "applied" ELSE "reapplied"
    /\ UNCHANGED <<dry_run, op, calls, target, filter_pattern>>
    /\ UNCHANGED tvars
    /\ UNCHANGED mvars

CanApply(kind) == phase \in {"fresh", "applied"} /\ op.kind = kind

ApplyProtectBranch ==
    /\ CanApply("protect-branch")
    /\ \E f \in FaultRules(op.kind) :
          Commit(TheProject, ProtectBranch_apply_to_project(
                     remote.ent[TheProject], TheProject, op.a, dry_run, f), f)

ApplyProtectTag ==
    /\ CanApply("protect-tag")
    /\ \E f \in FaultRules(op.kind) :
          Commit(TheProject, ProtectTag_apply_to_project(
                     remote.ent[TheProject], TheProject, op.a, dry_run, f), f)

ApplyProjectSetting ==
    /\ CanApply("project-setting")
    /\ \E f \in FaultRules(op.kind) :
          Commit(TheProject, ProjectSetting_apply_to_project(
                     remote.ent[TheProject], TheProject, op.a, dry_run, f), f)

ApplyGroupSetting ==
    /\ CanApply("project-setting")
    /\ \E f \in FaultRules(op.kind) :
          Commit(TheGroup, ProjectSetting_apply_to_group(
                     remote.ent[TheGroup], TheGroup, op.a, dry_run, f), f)

ApplyApprovalRule ==
    /\ CanApply("approval-rule")
    /\ \E f \in FaultRules(op.kind) :
          Commit(TheProject, ApprovalRule_apply_to_project(
                     remote.ent[TheProject], TheProject, op.a, dry_run, f,
                     remote.reports_total), f)

ApplyMergeRequestSetting ==
    /\ CanApply("merge-request-setting")
    /\ \E f \in FaultRules(op.kind) :
          Commit(TheProject, MergeRequestSetting_apply_to_project(
                     remote.ent[TheProject], TheProject, op.a, dry_run, f), f)

ApplyInitProject ==
    /\ CanApply("init-project")
    /\ \E f \in FaultRules(op.kind) :
          Commit(TheProject, InitProject_apply_to_project(
                     remote.ent[TheProject], TheProject, op.a, dry_run, f), f)

NextOps ==
    \/ ApplyProtectBranch
    \/ ApplyProtectTag
    \/ ApplyProjectSetting
    \/ ApplyGroupSetting
    \/ ApplyApprovalRule
    \/ ApplyMergeRequestSetting
    \/ ApplyInitProject

SpecOps == InitOps /\ [][NextOps]_vars

(***************************************************************************)
(* Properties of the operations (SpecOps)                                  *)
(***************************************************************************)
Methods(lg) == [i \in 1..Len(lg) |-> lg[i].method]
Actions(rec) == [i \in 1..Len(rec) |-> rec[i].action]

\* C1: in dry-run mode every HTTP request an application issues is a GET,
\* for every operation variant, mode and remote state.
C1_DryRunOnlyGets ==
    dry_run => \A i \in 1..Len(log) : log[i].method = "GET"

\* a dry run that met a state needing a change, read it and reported would_apply
C1_Witness ==
    /\ dry_run
    /\ phase = "applied"
    /\ log # <<>>
    /\ \E i \in 1..Len(recorded) : recorded[i].action = "would_apply"

\* C2: no outcome recorded in a dry run has disposition applied.
C2_NoAppliedInDryRun ==
    dry_run => \A i \in 1..Len(recorded) : recorded[i].action # "applied"

\* C3: protect-branch applied twice with the same desired configuration,
\* the remote keeping what the first application wrote and answering every
\* request: the first application yields applied (already_set if the record
\* matched from the start), the second yields already_set after exactly one
\* GET and nothing else.
C3_Scope == op.kind = "protect-branch" /\ ~op.a.unprotect /\ ~dry_run
C4_BranchDiffers(e, a) ==
    /\ e.pb[a.branch].present
    /\ \/ SeqMax(e.pb[a.branch].push) # a.push
       \/ SeqMax(e.pb[a.branch].merge) # a.merge
       \/ e.pb[a.branch].force # a.allow_force_push
C4_TagDiffers(e, a) ==
    e.pt[a.tag].present /\ SeqMax(e.pt[a.tag].create) # a.create
C4_FullBranchBody(a) ==
    {<<<<"name">>, PyStr(<<a.branch>>)>>, <<<<"push_access_level">>, PyInt(a.push)>>,
     <<<<"merge_access_level">>, PyInt(a.merge)>>,
     <<<<"allow_force_push">>, PyBool(a.allow_force_push)>>}
C4_FullTagBody(a) ==
    {<<<<"name">>, PyStr(<<a.tag>>)>>, <<<<"create_access_level">>, PyInt(a.create)>>}
C4_DeleteThenRecreate ==
    [][/\ (/\ op.kind = "protect-branch" /\ ~op.a.unprotect /\ ~dry_run
           /\ phase' # phase /\ fault' = NoFault
           /\ C4_BranchDiffers(remote.ent[TheProject], op.a))
          => /\ Methods(log') = <<"GET", "DELETE", "POST">>
             /\ \A i \in 1..3 : log'[i].res = "protected_branches" /\ log'[i].key = op.a.branch
             /\ log'[3].body = C4_FullBranchBody(op.a)
             /\ Actions(recorded') = <<"applied">>
       /\ (/\ op.kind = "protect-tag" /\ ~op.a.unprotect /\ ~dry_run
           /\ phase' # phase /\ fault' = NoFault
           /\ C4_TagDiffers(remote.ent[TheProject], op.a))
          => /\ Methods(log') = <<"GET", "DELETE", "POST">>
             /\ \A i \in 1..3 : log'[i].res = "protected_tags" /\ log'[i].key = op.a.tag
             /\ log'[3].body = C4_FullTagBody(op.a)
             /\ Actions(recorded') = <<"applied">>
       /\ \A i \in 1..Len(log') :
             log'[i].res \in {"protected_branches", "protected_tags"}
                => log'[i].method \in {"GET", "DELETE", "POST"}]_vars

\* a differing branch record was deleted and recreated
C4_Witness ==
    /\ op.kind = "protect-branch" /\ ~op.a.unprotect /\ ~dry_run
    /\ phase = "applied" /\ fault = NoFault
    /\ Methods(log) = <<"GET", "DELETE", "POST">>
    /\ Actions(recorded) = <<"applied">>
    /\ remote.ent[TheProject].pb[op.a.branch] =
          PBRec(<<op.a.push>>, <<op.a.merge>>, op.a.allow_force_push)

(***************************************************************************)
(* One call of GitLabClient._request (SpecTransport)                       *)
(***************************************************************************)
NoOp == [kind |-> "none", a |-> <<>>]

InitTransport ==
    /\ max_retries \in (0 - 1)..MaxRetriesBound
    /\ attempt = 0
    /\ t_pc = "loop"
    /\ trace = <<>>
    /\ sleeps = <<>>
    /\ t_exc = NoExc
    /\ last_exception = NoExc
    /\ dry_run = FALSE
    /\ op = NoOp
    /\ remote = [ent |-> <<>>, reports_total |-> TRUE]
    /\ log = <<>>
    /\ recorded = <<>>
    /\ raised = NoExc
    /\ fault = NoFault
    /\ calls = <<>>
    /\ phase = "fresh"
    /\ prev = NoRun
    /\ target = NoTarget
    /\ filter_pattern = NoFilter
    /\ MainIdle

NextTransport == RequestAttempt \/ RetryLoopExit

SpecTransport == InitTransport /\ [][NextTransport]_vars

Retryable(resp) == resp.kind = "conn" \/ resp.status \in RETRYABLE_STATUS_CODES
ErrorOf(resp) == IF resp.kind = "conn" THEN ConnectionError ELSE HTTPError(resp.status)

\* C8: with max_retries = n >= 0 a request makes at most n + 1 attempts,
\* retryable statuses and connection errors counted together; what it
\* returns is the first response that is not an error, every attempt before
\* it having failed retryably; when all n + 1 attempts fail retryably it
\* raises the error of the last one; with n = 0 there is one attempt and no
\* wait.
C8_RetryBudget ==
    max_retries >= 0 =>
        /\ Len(trace) <= max_retries + 1
        /\ Len(sleeps) <= max_retries
        /\ t_pc = "returned" =>
              /\ trace # <<>>
              /\ ~Retryable(trace[Len(trace)]) /\ ~RaisesForStatus(trace[Len(trace)].status)
              /\ \A i \in 1..(Len(trace) - 1) : Retryable(trace[i])
        /\ (Len(trace) = max_retries + 1 /\ \A i \in 1..Len(trace) : Retryable(trace[i]))
              => t_pc = "raised" /\ t_exc = ErrorOf(trace[Len(trace)])
        /\ max_retries = 0 => sleeps = <<>>

\* the budget was used up by a connection error, a 429 and a final 503
C8_Witness ==
    /\ max_retries = 2
    /\ Len(trace) = 3
    /\ trace[1].kind = "conn" /\ trace[2].status = 429 /\ trace[3].status = 503
    /\ t_pc = "raised" /\ t_exc = HTTPError(503)

\* C9: an error status outside the retryable set ends the request at once:
\* no further attempt, no wait for it, and the error raised carries it.
C9_NoRetryOnClientError ==
    \A i \in 1..Len(trace) :
        (trace[i].kind = "http" /\ RaisesForStatus(trace[i].status)
            /\ trace[i].status \notin {429, 500, 502, 503, 504})
        => /\ i = Len(trace)
           /\ Len(sleeps) = i - 1
           /\ t_pc = "raised"
           /\ t_exc = HTTPError(trace[i].status)

\* a 404 on the first attempt with retries to spare
C9_Witness ==
    /\ max_retries = 2
    /\ trace = <<HttpResp(404, NoHeader)>>
    /\ sleeps = <<>>
    /\ t_exc = HTTPError(404)

\* C10: the wait before a retry is the Retry-After value for a 429 whose
\* header is present and parses as a non-negative number, and
\* RETRY_BACKOFF_FACTOR * 2^attempt in every other case.
C10_NonNegativeNumber(h) == h \in {"0", "0.05", "2"}
C10_ClaimedWait(resp, att) ==
    IF resp.kind = "http" /\ resp.status = 429 /\ C10_NonNegativeNumber(resp.retry_after)
    THEN FloatMs(resp.retry_after)
    ELSE 500 * Pow2(att)
C10_BackoffWait ==
    \A i \in 1..Len(sleeps) : sleeps[i] = C10_ClaimedWait(trace[i], i - 1)

(***************************************************************************)
(* The walker: recurse (cli.py)                                            *)
(***************************************************************************)
\* A remote tree.  Paths are sequences of characters.
\*   group 1 "a": project 10 "a/p", subgroups 2 "a/b" and 3 "a/c" (empty)
\*   group 2 "a/b": projects 11 "a/b/p" and 12 "a/b/q", subgroup 4 "a/b/c"
\*   group 4 "a/b/c": project 13 "a/b/c/p"
GroupIds == {1, 2, 3, 4}
ProjectIds == {10, 11, 12, 13}
Tree ==
    [sub |-> (1 :> <<2, 3>>) @@ (2 :> <<4>>) @@ (3 :> <<>>) @@ (4 :> <<>>),
     proj |-> (1 :> <<10>>) @@ (2 :> <<11, 12>>) @@ (3 :> <<>>) @@ (4 :> <<13>>),
     path |-> (1 :> <<"a">>) @@ (2 :> <<"a", "/", "b">>) @@ (3 :> <<"a", "/", "c">>)
              @@ (4 :> <<"a", "/", "b", "/", "c">>)
              @@ (10 :> <<"a", "/", "p">>) @@ (11 :> <<"a", "/", "b", "/", "p">>)
              @@ (12 :> <<"a", "/", "b", "/", "q">>)
              @@ (13 :> <<"a", "/", "b", "/", "c", "/", "p">>)]

\* fnmatch.fnmatch on a POSIX host: `*` any run of characters ("/" included),
\* `?` any one character, `[seq]` / `[!seq]` a character class (no ranges
\* here), a `[` without closing `]` a literal.
RECURSIVE ClassEnd(_, _)
\* index of the `]` closing the class whose body starts at j, 0 if none
ClassEnd(pat, j) ==
    IF j > Len(pat) THEN 0
    ELSE IF pat[j] = "]" THEN j
    ELSE ClassEnd(pat, j + 1)

ClassClose(pat) ==
    LET j1 == IF Len(pat) >= 2 /\ pat[2] = "!" THEN 3 ELSE 2
        j2 == IF j1 <= Len(pat) /\ pat[j1] = "]" THEN j1 + 1 ELSE j1
    IN  ClassEnd(pat, j2)

RECURSIVE Match(_, _)
Match(name, pat) ==
    IF pat = <<>> THEN name = <<>>
    ELSE IF Head(pat) = "*"
    THEN Match(name, Tail(pat)) \/ (name # <<>> /\ Match(Tail(name), pat))
    ELSE IF Head(pat) = "?"
    THEN name # <<>> /\ Match(Tail(name), Tail(pat))
    ELSE IF Head(pat) = "[" /\ ClassClose(pat) # 0
    THEN LET k == ClassClose(pat)
             negated == pat[2] = "!"
             stuff == {pat[i] : i \in (IF negated THEN 3 ELSE 2)..(k - 1)}
         IN  /\ name # <<>>
             /\ (Head(name) \in stuff) # negated
             /\ Match(Tail(name), SubSeq(pat, k + 1, Len(pat)))
    ELSE name # <<>> /\ Head(name) = Head(pat) /\ Match(Tail(name), Tail(pat))

\* `filter_pattern and not fnmatch.fnmatch(path, filter_pattern)` (cli.py:28, :52)
Skipped(fp, path) == fp.given /\ fp.pat # <<>> /\ ~Match(path, fp.pat)

\* A fault rule of the walk also names the entity it strikes (0: any).
WalkFault(m, res, st, ent) == [method |-> m, res |-> res, status |-> st, ent |-> ent]
NoWalkFault == WalkFault("-", "-", 200, 0)
FaultAt(f, ent) ==
    IF f.ent \in {0, ent} THEN FaultRule(f.method, f.res, f.status) ELSE NoFault

Call(fn, id) == [fn |-> fn, id |-> id]

\* operation.apply_to_project / apply_to_group, by variant
OpApplyToProject(o, e, pid, d, f, rt) ==
    CASE o.kind = "protect-branch" -> ProtectBranch_apply_to_project(e, pid, o.a, d, f)
      [] o.kind = "protect-tag" -> ProtectTag_apply_to_project(e, pid, o.a, d, f)
      [] o.kind = "project-setting" -> ProjectSetting_apply_to_project(e, pid, o.a, d, f)
      [] o.kind = "approval-rule" -> ApprovalRule_apply_to_project(e, pid, o.a, d, f, rt)
      [] o.kind = "merge-request-setting" ->
            MergeRequestSetting_apply_to_project(e, pid, o.a, d, f)
      [] OTHER -> InitProject_apply_to_project(e, pid, o.a, d, f)

OpApplyToGroup(o, e, gid, d, f) ==
    IF o.kind = "project-setting"
    THEN ProjectSetting_apply_to_group(e, gid, o.a, d, f)
    ELSE Fin(<<>>, e, <<>>, NoExc)

\* The world a walk threads through: remote entities, requests issued,
\* outcomes, invocations and the exception that ended it.
World(ent, lg, rec, cl, exc) ==
    [ent |-> ent, log |-> lg, recorded |-> rec, calls |-> cl, raised |-> exc]

Applied(w, fn, id, r0) ==
    CHOOSE x \in {World([w.ent EXCEPT ![id] = r.ent], w.log \o r.log,
                        w.recorded \o r.recorded, Append(w.calls, Call(fn, id)), r.raised)
                  : r \in {r0}} : TRUE

\* cli.py:40-46
SubTargetAsProject(id) == [type |-> "project", id |-> id]
SubTarget(id) == [type |-> "group", id |-> id]

\* What one walk is run with: operation, dry-run flag, fault, filter.
Ctx(o, d, f, fp, rt) == [op |-> o, dry_run |-> d, fault |-> f, filter |-> fp, rt |-> rt]

\* client.get_subgroups / client.get_group_projects (client.py:177-181)
Listed(w, fn, res, gid, items, c) ==
    CHOOSE r \in {[world |-> World(w.ent, w.log \o ls.log, w.recorded,
                                   Append(w.calls, Call(fn, gid)),
                                   IF Ok(ls.status) THEN NoExc ELSE ExcOf(ls.status)),
                   items |-> ls.items]
                  : ls \in {Paginate(FaultAt(c.fault, gid), res, gid, items, c.rt)}} : TRUE

ProjectApplied(w, pid, c) ==
    Applied(w, "apply_to_project", pid,
            OpApplyToProject(c.op, w.ent[pid], pid, c.dry_run, FaultAt(c.fault, pid), c.rt))

\* In the operators below `CHOOSE r \in {e(x) : x \in {v}} : TRUE` is e(v)
\* with v evaluated once.
RECURSIVE Recurse(_, _, _)
RECURSIVE RecurseSubgroups(_, _, _)

\* cli.py:50-55
RECURSIVE ApplyProjects(_, _, _)
ApplyProjects(w0, ids0, c) ==
    CHOOSE r \in {IF ids = <<>> \/ w.raised # NoExc THEN w
                  ELSE IF Skipped(c.filter, Tree.path[Head(ids)])
                  THEN ApplyProjects(w, Tail(ids), c)
                  ELSE ApplyProjects(ProjectApplied(w, Head(ids), c), Tail(ids), c)
                  : w \in {w0}, ids \in {ids0}} : TRUE

\* cli.py:50: for project in client.get_group_projects(target.id)
ApplyListed(l0, c) ==
    CHOOSE r \in {IF l.world.raised # NoExc THEN l.world
                  ELSE ApplyProjects(l.world, l.items, c) : l \in {l0}} : TRUE

VisitProjects(w0, gid, c) ==
    CHOOSE r \in {IF w.raised # NoExc THEN w
                  ELSE ApplyListed(Listed(w, "get_group_projects", "groups/projects", gid,
                                          Tree.proj[gid], c), c)
                  : w \in {w0}} : TRUE

\* cli.py:39: for subgroup in client.get_subgroups(target.id)
VisitListedProjectsFirst(l0, gid, c) ==
    CHOOSE r \in {IF l.world.raised # NoExc THEN l.world
                  ELSE RecurseSubgroups(VisitProjects(l.world, gid, c), l.items, c)
                  : l \in {l0}} : TRUE
VisitListed(l0, gid, c) ==
    CHOOSE r \in {IF l.world.raised # NoExc THEN l.world
                  ELSE VisitProjects(RecurseSubgroups(l.world, l.items, c), gid, c)
                  : l \in {l0}} : TRUE

VisitSubgroups(w0, gid, c) ==
    CHOOSE r \in {IF w.raised # NoExc THEN w
                  ELSE VisitListed(Listed(w, "get_subgroups", "groups/subgroups", gid,
                                          Tree.sub[gid], c), gid, c)
                  : w \in {w0}} : TRUE

\* cli.py:35-36
GroupApplied(w, gid, c) ==
    IF AppliesToGroup(c.op)
    THEN Applied(w, "apply_to_group", gid,
                 OpApplyToGroup(c.op, w.ent[gid], gid, c.dry_run, FaultAt(c.fault, gid)))
    ELSE w

\* cli.py:39-47
RecurseSubgroups(w0, ids0, c) ==
    CHOOSE r \in {IF ids = <<>> \/ w.raised # NoExc THEN w
                  ELSE RecurseSubgroups(Recurse(w, SubTarget(Head(ids)), c), Tail(ids), c)
                  : w \in {w0}, ids \in {ids0}} : TRUE

\* cli.py:20-55
Recurse(w0, tgt0, c) ==
    CHOOSE r \in {IF tgt.type = "project"
                  THEN IF Skipped(c.filter, Tree.path[tgt.id]) THEN w
                       ELSE ProjectApplied(w, tgt.id, c)
                  ELSE VisitSubgroups(GroupApplied(w, tgt.id, c), tgt.id, c)
                  : w \in {w0}, tgt \in {tgt0}} : TRUE

(***************************************************************************)
(* SpecWalk: one run walks the tree from a resolved target.                *)
(***************************************************************************)
Filters ==
    {NoFilter} \cup
    {[given |-> TRUE, pat |-> x] :
        x \in {<<>>, <<"a", "/", "*">>, <<"a", "/", "b", "/", "*">>,
               <<"a", "/", "?">>, <<"*", "/", "p">>, <<"a", "/", "[", "b", "c", "]", "/", "*">>,
               <<"a", "/", "[", "!", "b", "]", "*">>, <<"*", "q">>, <<"A", "/", "*">>}}

WalkTargets ==
    {[type |-> "group", id |-> g] : g \in {1, 2}}
    \cup {[type |-> "project", id |-> x] : x \in {10, 11}}

WalkOps ==
    {[kind |-> "protect-branch", a |-> PBArgs(40, 40, FALSE, FALSE)],
     [kind |-> "protect-branch", a |-> PBArgs(40, 40, FALSE, TRUE)],
     [kind |-> "project-setting", a |-> [settings |-> <<<<"visibility", "=", "private">>>>]],
     [kind |-> "init-project", a |-> IPArgs(FALSE, FALSE, FALSE, FALSE, FALSE, FALSE)],
     [kind |-> "init-project", a |-> IPArgs(TRUE, TRUE, TRUE, FALSE, FALSE, TRUE)]}

WalkFaults(kind) ==
    {NoWalkFault}
    \cup {WalkFault("GET", res, st, g) :
            res \in {"groups/subgroups", "groups/projects"}, st \in {403, 0}, g \in {1, 2}}
    \cup {WalkFault(f.method, f.res, f.status, 11) :
            f \in {x \in FaultRules(kind) \ {NoFault} :
                      x.status = 403 \/ (x.status = 0 /\ x.method = "GET")}}

InitWalk ==
    /\ TransportIdle
    /\ MainIdle
    /\ dry_run \in BOOLEAN
    /\ op \in WalkOps
    /\ \E e \in {FreshProject, InitializedProject} :
          remote = [ent |-> [x \in GroupIds \cup ProjectIds |-> e], reports_total |-> TRUE]
    /\ log = <<>>
    /\ recorded = <<>>
    /\ raised = NoExc
    /\ fault = NoWalkFault
    /\ calls = <<>>
    /\ phase = "fresh"
    /\ prev = NoRun
    /\ target \in WalkTargets
    /\ filter_pattern \in Filters

\* recurse(client, target, op, args.filter) (cli.py:164)
Walk ==
    /\ phase = "fresh"
    /\ \E f \in WalkFaults(op.kind) :
          LET w == Recurse(World(remote.ent, <<>>, <<>>, <<>>, NoExc), target,
                           Ctx(op, dry_run, f, filter_pattern, remote.reports_total))
          IN  /\ remote' = [remote EXCEPT !.ent = w.ent]
              /\ log' = w.log
              /\ recorded' = w.recorded
              /\ calls' = w.calls
              /\ raised' = w.raised
              /\ fault' = f
    /\ phase' = "walked"
    /\ UNCHANGED <<dry_run, op, prev, target, filter_pattern>>
    /\ UNCHANGED tvars
    /\ UNCHANGED mvars

NextWalk == Walk

SpecWalk == InitWalk /\ [][NextWalk]_vars

(***************************************************************************)
(* Properties of the walk (SpecWalk)                                       *)
(***************************************************************************)
Range(seq) == {seq[i] : i \in 1..Len(seq)}
Count(seq, x) == Cardinality({i \in 1..Len(seq) : seq[i] = x})

RECURSIVE GroupsUnder(_)
GroupsUnder(g) == {g} \cup UNION {GroupsUnder(x) : x \in Range(Tree.sub[g])}
ProjectsUnder(g) == UNION {Range(Tree.proj[x]) : x \in GroupsUnder(g)}
MatchingProjects(g, fp) ==
    {x \in ProjectsUnder(g) : fp.given => Match(Tree.path[x], fp.pat)}
OutcomesFor(ttype, id) ==
    Cardinality({i \in 1..Len(recorded) :
                    recorded[i].target_type = ttype /\ recorded[i].target_id = id})
Completed == phase = "walked" /\ raised = NoExc

\* C5: a completed walk of a group tree with an operation that is not
\* group-applicable records exactly one outcome for every project of the
\* tree whose path matches the filter (every project when there is no
\* filter) and no other outcome.
C5_OneOutcomePerMatchingProject ==
    (Completed /\ target.type = "group" /\ ~AppliesToGroup(op)) =>
        LET ms == MatchingProjects(target.id, filter_pattern)
        IN  /\ Len(recorded) = Cardinality(ms)
            /\ \A x \in ms : OutcomesFor("project", x) = 1
            /\ \A i \in 1..Len(recorded) :
                  recorded[i].target_type = "project" /\ recorded[i].target_id \in ms

\* C6: in a completed walk every group of the subtree has its subgroups
\* listed once and its direct projects listed once, whatever the filter, and
\* a group-applicable operation is applied once to each of these groups.
C6_FilterNeverExcludesGroups ==
    (Completed /\ target.type = "group") =>
        \A g \in GroupsUnder(target.id) :
            /\ Count(calls, Call("get_subgroups", g)) = 1
            /\ Count(calls, Call("get_group_projects", g)) = 1
            /\ Cardinality({i \in 1..Len(log) : log[i].method = "GET" /\ log[i].ent = g
                               /\ log[i].res = "groups/subgroups"}) = 1
            /\ Cardinality({i \in 1..Len(log) : log[i].method = "GET" /\ log[i].ent = g
                               /\ log[i].res = "groups/projects"}) = 1
            /\ op.kind = "project-setting" => Count(calls, Call("apply_to_group", g)) = 1

\* a filter no group path matches, and the deepest group still visited
C6_Witness ==
    /\ Completed
    /\ target = [type |-> "group", id |-> 1]
    /\ filter_pattern = [given |-> TRUE, pat |-> <<"*", "q">>]
    /\ op.kind = "project-setting"
    /\ Count(calls, Call("apply_to_group", 4)) = 1
    /\ Count(calls, Call("get_group_projects", 4)) = 1
    /\ OutcomesFor("project", 12) = 1 /\ OutcomesFor("project", 13) = 0

\* C7: with a project as root target and a filter given, a completed walk
\* applies the operation once and records one outcome when the project's
\* path matches, records nothing and issues no request when it does not,
\* and lists no group in either case.
C7_FilterOnProjectTarget ==
    (Completed /\ target.type = "project" /\ filter_pattern.given) =>
        /\ IF Match(Tree.path[target.id], filter_pattern.pat)
           THEN calls = <<Call("apply_to_project", target.id)>> /\ Len(recorded) = 1
           ELSE calls = <<>> /\ recorded = <<>> /\ log = <<>>
        /\ \A i \in 1..Len(calls) : calls[i].fn \notin {"get_subgroups", "get_group_projects"}

(***************************************************************************)
(* SpecPaginate: one call of GitLabClient.paginate against a listing of    *)
(* up to MaxItems items, served in pages of per_page items (the caller's   *)
(* per_page parameter, PER_PAGE when it passes none), by a remote that     *)
(* does or does not send x-total-pages.                                    *)
(***************************************************************************)
MaxItems == 6
MaxPerPage == 3

ListingFaults == {NoFault, FaultRule("GET", "listing", 403), FaultRule("GET", "listing", 0)}

InitPaginate ==
    /\ TransportIdle
    /\ MainIdle
    /\ dry_run \in BOOLEAN
    /\ op = NoOp
    /\ \E n \in 0..MaxItems, pp \in 1..MaxPerPage, rt \in BOOLEAN :
          remote = [ent |-> <<>>, reports_total |-> rt,
                    items |-> [i \in 1..n |-> i], per_page |-> pp]
    /\ log = <<>>
    /\ recorded = <<>>
    /\ raised = NoExc
    /\ fault = NoFault
    /\ calls = <<>>
    /\ phase = "fresh"
    /\ prev = NoRun
    /\ target = NoTarget
    /\ filter_pattern = NoFilter

\* client.paginate(endpoint, {"per_page": per_page}) (client.py:102-120)
PaginateCall ==
    /\ phase = "fresh"
    /\ \E f \in ListingFaults :
          \E pg \in {PaginateFrom(f, "listing", 0, remote.items, remote.per_page,
                                  remote.reports_total, 1, <<>>, <<>>)} :
              /\ log' = pg.log
              /\ raised' = IF Ok(pg.status) THEN NoExc ELSE ExcOf(pg.status)
              /\ returned' = IF Ok(pg.status) THEN [called |-> TRUE, value |-> pg.items]
                              ELSE NothingReturned
              /\ fault' = f
    /\ phase' = "paginated"
    /\ UNCHANGED <<dry_run, op, remote, recorded, calls, prev, target, filter_pattern>>
    /\ UNCHANGED <<token, target_url, exit_code>>
    /\ UNCHANGED tvars

NextPaginate == PaginateCall

SpecPaginate == InitPaginate /\ [][NextPaginate]_vars

\* the page parameter of a logged request
PageParam(r) == CHOOSE i \in 1..(MaxItems + 2) : <<<<"page">>, PyInt(i)>> \in r.body
RECURSIVE PagesUpTo(_, _, _)
PagesUpTo(items, per_page, k) ==
    IF k = 0 THEN <<>> ELSE PagesUpTo(items, per_page, k - 1) \o PageOf(items, per_page, k)
Paginated == phase = "paginated" /\ raised = NoExc

\* C11: against a remote that reports the correct page count T, paginate
\* requests pages 1, 2, 3, ... in increasing order, returns the items of the
\* pages it received concatenated in page order, stops at the first page
\* that is empty or whose number has reached T and at no page before it,
\* issues at most T requests (one when the listing is empty) and returns
\* every item.
C11_PaginateInOrder ==
    (Paginated /\ remote.reports_total) =>
        LET k == Len(log)
            T == PageCount(Len(remote.items), remote.per_page)
            page(i) == PageOf(remote.items, remote.per_page, i)
        IN  /\ k >= 1
            /\ \A i \in 1..k : log[i].method = "GET" /\ PageParam(log[i]) = i
            /\ returned.value = PagesUpTo(remote.items, remote.per_page, k)
            /\ page(k) = <<>> \/ k >= T
            /\ \A j \in 1..(k - 1) : page(j) # <<>> /\ j < T
            /\ k <= Max(T, 1)
            /\ returned.value = remote.items
\* a listing of three pages was fetched whole
C11_Witness ==
    /\ Paginated
    /\ remote.reports_total
    /\ Len(log) = 3
    /\ Len(returned.value) > 2 * remote.per_page

\* C12: against a remote that sends no page count, paginate keeps
\* requesting the next page until a page comes back empty, so that every
\* item of the listing is returned.
C12_HeaderlessUntilEmpty ==
    (Paginated /\ ~remote.reports_total) =>
        /\ returned.value = remote.items
        /\ PageOf(remote.items, remote.per_page, Len(log)) = <<>>

(***************************************************************************)
(* _extract_path_from_url (client.py:162-175).  Strings are sequences of   *)
(* one-character strings.  UrlParse is urllib.parse.urlparse restricted to *)
(* what the function reads: scheme, netloc and path.                       *)
(***************************************************************************)
StartsWith(str, pre) == Len(str) >= Len(pre) /\ SubSeq(str, 1, Len(pre)) = pre
EndsWith(str, suf) ==
    Len(str) >= Len(suf) /\ SubSeq(str, Len(str) - Len(suf) + 1, Len(str)) = suf
\* str.find, one-based: the first index where sub occurs in str, 0 when none
Find(str, sub) ==
    LET hits == {i \in 1..(Len(str) - Len(sub) + 1) : SubSeq(str, i, i + Len(sub) - 1) = sub}
    IN  IF hits = {} THEN 0 ELSE CHOOSE i \in hits : \A j \in hits : i <= j
\* the first index from `from` on whose character is in `stops`, Len(str) + 1 when none
FindAny(str, stops, from) ==
    LET hits == {i \in from..Len(str) : str[i] \in stops}
    IN  IF hits = {} THEN Len(str) + 1 ELSE CHOOSE i \in hits : \A j \in hits : i <= j

RECURSIVE LStripSlash(_)
LStripSlash(str) == IF str # <<>> /\ Head(str) = "/" THEN LStripSlash(Tail(str)) ELSE str
RECURSIVE RStripSlash(_)
RStripSlash(str) == IF str # <<>> /\ str[Len(str)] = "/"
                    THEN RStripSlash(SubSeq(str, 1, Len(str) - 1)) ELSE str
\* str.strip("/")
StripSlashes(str) == RStripSlash(LStripSlash(str))

SchemeChars == Range(LowerLetters) \cup Range(UpperLetters) \cup Range(Digits) \cup {"+", "-", "."}
\* the index of the ":" that ends the scheme, 0 when the input has no scheme
SchemeEnd(url) ==
    IF /\ Find(url, <<":">>) > 1
       /\ url[1] \in Range(LowerLetters) \cup Range(UpperLetters)
       /\ \A j \in 1..(Find(url, <<":">>) - 1) : url[j] \in SchemeChars
    THEN Find(url, <<":">>) ELSE 0
\* the split of what follows the scheme into netloc and path
SplitNetloc(rest) ==
    IF StartsWith(rest, <<"/", "/">>)
    THEN [netloc |-> SubSeq(rest, 3, FindAny(rest, {"/", "?", "#"}, 3) - 1),
          tail |-> SubSeq(rest, FindAny(rest, {"/", "?", "#"}, 3), Len(rest))]
    ELSE [netloc |-> <<>>, tail |-> rest]
UrlParse(url) ==
    [scheme |-> SubSeq(url, 1, SchemeEnd(url) - 1),
     netloc |-> SplitNetloc(SubSeq(url, SchemeEnd(url) + 1, Len(url))).netloc,
     path |-> SubSeq(SplitNetloc(SubSeq(url, SchemeEnd(url) + 1, Len(url))).tail, 1,
                     FindAny(SplitNetloc(SubSeq(url, SchemeEnd(url) + 1, Len(url))).tail,
                             {"?", "#"}, 1) - 1)]

\* `if suffix in path: path = path[: path.index(suffix)]` (client.py:170-171)
TruncateAt(path, suffix) ==
    IF Find(path, suffix) > 0 THEN SubSeq(path, 1, Find(path, suffix) - 1) ELSE path
ExtractPathFromUrl(url) ==
    IF UrlParse(url).scheme # <<>> /\ UrlParse(url).netloc # <<>>
    THEN TruncateAt(TruncateAt(TruncateAt(StripSlashes(UrlParse(url).path),
                                          <<"/", "-", "/">>),
                               <<"/", "-">>),
                    <<".", "g", "i", "t">>)
    ELSE StripSlashes(url)

(***************************************************************************)
(* SpecExtract: _extract_path_from_url applied to one input, a bare path   *)
(* or a URL, whose path is put together from at most MaxPieces pieces.     *)
(***************************************************************************)
MaxPieces == 4
Pieces == {<<"a">>, <<"/">>, <<"-">>, <<".">>, <<"g", "i", "t">>, <<"_">>}
UrlPrefixes == {<<>>, <<"h", "t", "t", "p", "s", ":", "/", "/", "h">>,
                <<"h", "t", "t", "p", "s", ":", "/", "/", "h", "/">>}
RECURSIVE Flatten(_)
Flatten(ps) == IF ps = <<>> THEN <<>> ELSE Head(ps) \o Flatten(Tail(ps))
Urls == {pre \o Flatten(ps) :
            pre \in UrlPrefixes, ps \in UNION {[1..n -> Pieces] : n \in 0..MaxPieces}}

InitExtract ==
    /\ TransportIdle
    /\ dry_run = FALSE
    /\ op = NoOp
    /\ remote = [ent |-> <<>>, reports_total |-> TRUE]
    /\ log = <<>>
    /\ recorded = <<>>
    /\ raised = NoExc
    /\ fault = NoFault
    /\ calls = <<>>
    /\ phase = "fresh"
    /\ prev = NoRun
    /\ target = NoTarget
    /\ filter_pattern = NoFilter
    /\ token = None
    /\ target_url \in Urls
    /\ exit_code = NotExited
    /\ returned = NothingReturned

\* path = self._extract_path_from_url(url) (client.py:130)
ExtractPath ==
    /\ phase = "fresh"
    /\ returned' = [called |-> TRUE, value |-> ExtractPathFromUrl(target_url)]
    /\ phase' = "extracted"
    /\ UNCHANGED <<dry_run, op, remote, log, recorded, raised, fault, calls, prev, target,
                   filter_pattern, token, target_url, exit_code>>
    /\ UNCHANGED tvars

NextExtract == ExtractPath

SpecExtract == InitExtract /\ [][NextExtract]_vars

HasSchemeAndHost(url) == UrlParse(url).scheme # <<>> /\ UrlParse(url).netloc # <<>>
GitSuffix == <<".", "g", "i", "t">>
WithoutGitSuffix(path) ==
    IF EndsWith(path, GitSuffix) THEN SubSeq(path, 1, Len(path) - Len(GitSuffix)) ELSE path
\* the path the specification describes for a URL whose stripped path is path
ClaimedPath(path) == WithoutGitSuffix(TruncateAt(path, <<"/", "-">>))

\* C15: for an input with a scheme and a host the extracted path is the
\* URL's path without leading and trailing slashes, cut at the first "/-/"
\* or "/-" and with a trailing ".git" removed, and is that path unchanged
\* when it has no such marker and does not end in ".git"; an input without
\* a scheme is returned with its leading and trailing slashes stripped.
C15_ExtractedPath ==
    phase = "extracted" =>
        IF HasSchemeAndHost(target_url)
        THEN returned.value = ClaimedPath(StripSlashes(UrlParse(target_url).path))
        ELSE returned.value = StripSlashes(target_url)

(***************************************************************************)
(* resolve_target (client.py:124-160).  The remote knows the groups and    *)
(* projects of Tree by their paths; a lookup names its entity by the       *)
(* percent-encoded path.                                                   *)
(***************************************************************************)
Unreserved == Range(LowerLetters) \cup Range(UpperLetters) \cup Range(Digits)
              \cup {"_", ".", "-", "~"}
PercentEncoded == ("/" :> <<"%", "2", "F">>) @@ (":" :> <<"%", "3", "A">>)
                  @@ ("%" :> <<"%", "2", "5">>) @@ (" " :> <<"%", "2", "0">>)
\* urllib.parse.quote(path, safe="") (client.py:131)
RECURSIVE Quote(_)
Quote(str) ==
    IF str = <<>> THEN <<>>
    ELSE (IF Head(str) \in Unreserved THEN <<Head(str)>> ELSE PercentEncoded[Head(str)])
         \o Quote(Tail(str))

ProjectsAt(encoded_path) == {x \in ProjectIds : Quote(Tree.path[x]) = encoded_path}
GroupsAt(encoded_path) == {g \in GroupIds : Quote(Tree.path[g]) = encoded_path}
\* self.get(f"/projects/{encoded_path}") and self.get(f"/groups/{encoded_path}")
LookupReq(res, encoded_path) ==
    Req("GET", res, 0, "", {<<<<"encoded_path">>, PyStr(encoded_path)>>}, {})
LookupStatus(f, res, found) == St(FaultAt(f, 0), "GET", res, IF found THEN 200 ELSE 404)

\* Target(type=..., id=proj["id"], path=proj["path_with_namespace"]) (client.py:136-142)
ProjectTargetUnnamed(x) == [type |-> "project", id |-> x, path |-> <<>>]
ProjectTarget(x) == [type |-> "project", id |-> x, path |-> Tree.path[x]]
\* Target(type=..., id=grp["id"], path=grp["full_path"]) (client.py:150-156)
GroupTarget(g) == [type |-> "group", id |-> g, path |-> Tree.path[g]]
\* SystemExit(f"ERROR: Could not resolve '{url}' as a project or group.")
CouldNotResolve(url) == [type |-> "SystemExit", status |-> 0, url |-> url]
\* `e.response.status_code != 404` (client.py:144) and `== 404` (client.py:158)
NotFoundAnyError(st) == ~Ok(st)
NotFound(st) == st = 404

Resolved(lg, tgt, exc) == [log |-> lg, target |-> tgt, raised |-> exc]
\* client.py:148-160
GroupLookup(url, encoded_path, f, lg) ==
    LET st == LookupStatus(f, "groups/by-path", GroupsAt(encoded_path) # {})
    IN  IF Ok(st)
        THEN Resolved(Append(lg, LookupReq("groups/by-path", encoded_path)),
                      GroupTarget(CHOOSE g \in GroupsAt(encoded_path) : TRUE), NoExc)
        ELSE Resolved(Append(lg, LookupReq("groups/by-path", encoded_path)), NoTarget,
                      IF NotFound(st) THEN CouldNotResolve(url) ELSE ExcOf(st))
\* client.py:133-145
ProjectLookup(url, encoded_path, f) ==
    LET st == LookupStatus(f, "projects/by-path", ProjectsAt(encoded_path) # {})
    IN  IF Ok(st)
        THEN Resolved(<<LookupReq("projects/by-path", encoded_path)>>,
                      ProjectTarget(CHOOSE x \in ProjectsAt(encoded_path) : TRUE), NoExc)
        ELSE IF NotFound(st)
        THEN GroupLookup(url, encoded_path, f, <<LookupReq("projects/by-path", encoded_path)>>)
        ELSE Resolved(<<LookupReq("projects/by-path", encoded_path)>>, NoTarget, ExcOf(st))
ResolveTarget(url, f) == ProjectLookup(url, Quote(ExtractPathFromUrl(url)), f)

(***************************************************************************)
(* main (cli.py:126-184): the credential check, the resolution of the      *)
(* target, the walk and the exit code.  An exception main does not catch   *)
(* leaves exit_code at NotExited and is kept in `raised`.                  *)
(***************************************************************************)
\* `if not token` (cli.py:135)
HasTokenAlways(tok) == TRUE
HasToken(tok) == tok # None /\ tok # PyStr(<<>>)
Returned(code) == [returned |-> TRUE, code |-> code]
\* errors = sum(1 for r in operation.results if r.action == "error") (cli.py:176)
Errors(rec) == Cardinality({i \in 1..Len(rec) : rec[i].action = "error"})
\* return 1 if errors > 0 else 0 (cli.py:184)
ExitCodeOfAlwaysZero(errors) == 0
ExitCodeOf(errors) == IF errors > 0 THEN 1 ELSE 0

\* `except requests.HTTPError as e: ... return 1` (cli.py:165-167)
CatchesNothing(exc) == FALSE
CatchesHTTPError(exc) == exc.type = "HTTPError"

MainResult(code, w, tgt) == [exit_code |-> code, world |-> w, target |-> tgt]
\* cli.py:165-184: what main does with the way recurse ended
AfterRecurse(w, tgt) ==
    MainResult(IF w.raised = NoExc THEN Returned(ExitCodeOf(Errors(w.recorded)))
               ELSE IF CatchesHTTPError(w.raised) THEN Returned(1)
               ELSE IF w.raised = KeyboardInterrupt THEN Returned(130)
               ELSE NotExited,
               w, tgt)
\* cli.py:149-164: what main does with the way resolve_target ended
AfterResolve(r, ent, c) ==
    IF r.raised = NoExc
    THEN CHOOSE x \in {AfterRecurse(w, r.target)
                        : w \in {Recurse(World(ent, r.log, <<>>, <<>>, NoExc), r.target, c)}}
                : TRUE
    ELSE MainResult(IF r.raised.type = "SystemExit" THEN Returned(1) ELSE NotExited,
                    World(ent, r.log, <<>>, <<>>, r.raised), NoTarget)
Main(tok, url, ent, c) ==
    IF ~HasToken(tok)
    THEN MainResult(Returned(1), World(ent, <<>>, <<>>, <<>>, NoExc), NoTarget)
    ELSE CHOOSE x \in {AfterResolve(r, ent, c) : r \in {ResolveTarget(url, c.fault)}} : TRUE

(***************************************************************************)
(* SpecMain: one run of main over the remote tree                          *)
(***************************************************************************)
Tokens == {None, PyStr(<<>>), PyStr(<<"t">>)}
TargetUrls ==
    {<<"a">>,
     <<"a", "/", "b">>,
     <<"/", "a", "/", "p", "/">>,
     <<"a", "/", "x">>,
     <<"a", "/", "p", ".", "g", "i", "t">>,
     <<"h", "t", "t", "p", "s", ":", "/", "/", "h", "/", "a", "/", "b", "/", "p">>,
     <<"h", "t", "t", "p", "s", ":", "/", "/", "h", "/", "a", "/", "p", "/", "-", "/", "s", "e", "t", "t", "i", "n", "g", "s">>,
     <<"h", "t", "t", "p", "s", ":", "/", "/", "h", "/", "a", "/", "b", ".", "g", "i", "t">>,
     <<"h", "t", "t", "p", "s", ":", "/", "/", "h", "/", "a", "/", "b", "/">>,
     <<"h", "t", "t", "p", "s", ":", "/", "/", "h", "/", "a", "/", "c", "/", "p">>}
MainOps ==
    {[kind |-> "protect-branch", a |-> PBArgs(40, 40, FALSE, FALSE)],
     [kind |-> "project-setting", a |-> [settings |-> <<<<"visibility", "=", "private">>>>]],
     [kind |-> "init-project", a |-> IPArgs(TRUE, TRUE, TRUE, FALSE, FALSE, TRUE)]}
MainFilters == {NoFilter, [given |-> TRUE, pat |-> <<"a", "/", "b", "/", "*">>]}
LookupFaults ==
    {WalkFault("GET", res, st, 0) :
        res \in {"projects/by-path", "groups/by-path"}, st \in {403, 404, 500, 0}}
\* an interruption during a lookup of the resolution or a listing of the walk
InterruptFaults ==
    {WalkFault("GET", res, Interrupted, 0) : res \in {"projects/by-path", "groups/by-path"}}
    \cup {WalkFault("GET", res, Interrupted, g) :
             res \in {"groups/subgroups", "groups/projects"}, g \in {1, 2}}
MainFaults(kind) == WalkFaults(kind) \cup LookupFaults \cup InterruptFaults

InitMain ==
    /\ TransportIdle
    /\ dry_run \in BOOLEAN
    /\ op \in MainOps
    /\ \E e \in {FreshProject, InitializedProject} :
          remote = [ent |-> [x \in GroupIds \cup ProjectIds |-> e], reports_total |-> TRUE]
    /\ log = <<>>
    /\ recorded = <<>>
    /\ raised = NoExc
    /\ fault = NoWalkFault
    /\ calls = <<>>
    /\ phase = "fresh"
    /\ prev = NoRun
    /\ target = NoTarget
    /\ filter_pattern \in MainFilters
    /\ token \in Tokens
    /\ target_url \in TargetUrls
    /\ exit_code = NotExited
    /\ returned = NothingReturned

\* main() (cli.py:126-184)
MainRun ==
    /\ phase = "fresh"
    /\ \E f \in MainFaults(op.kind) :
          \E r \in {Main(token, target_url, remote.ent,
                          Ctx(op, dry_run, f, filter_pattern, remote.reports_total))} :
              /\ remote' = [remote EXCEPT !.ent = r.world.ent]
              /\ log' = r.world.log
              /\ recorded' = r.world.recorded
              /\ calls' = r.world.calls
              /\ raised' = r.world.raised
              /\ target' = r.target
              /\ exit_code' = r.exit_code
              /\ fault' = f
    /\ phase' = "exited"
    /\ UNCHANGED <<dry_run, op, prev, filter_pattern, token, target_url, returned>>
    /\ UNCHANGED tvars

NextMain == MainRun

SpecMain == InitMain /\ [][NextMain]_vars

(***************************************************************************)
(* Properties of target resolution and of main (SpecMain)                  *)
(***************************************************************************)
Exited == phase = "exited"
EncodedPath == Quote(ExtractPathFromUrl(target_url))
\* the remote's answers to the two lookups of the run
ProjectLookupStatus ==
    LookupStatus(fault, "projects/by-path", ProjectsAt(EncodedPath) # {})
GroupLookupStatus ==
    LookupStatus(fault, "groups/by-path", GroupsAt(EncodedPath) # {})
GroupLookups == {i \in 1..Len(log) : log[i].res = "groups/by-path"}
ApplyCalls == {i \in 1..Len(calls) : calls[i].fn \in {"apply_to_project", "apply_to_group"}}

\* C13: resolution first looks the path up as a project; on success the
\* target is that project, with the id and path_with_namespace of the
\* response, and no group lookup is issued; the group lookup is issued, for
\* the same encoded path and as the second request, exactly when the
\* project lookup answered 404, and on success gives a group target with
\* the response's id and full_path; when both lookups answer 404 the run
\* ends with the 'could not resolve' failure that names the input.
C13_ProjectThenGroup ==
    (Exited /\ token = PyStr(<<"t">>)) =>
        /\ Len(log) >= 1
        /\ log[1] = Req("GET", "projects/by-path", 0, "",
                        {<<<<"encoded_path">>, PyStr(EncodedPath)>>}, {})
        /\ Ok(ProjectLookupStatus) =>
              /\ GroupLookups = {}
              /\ \E x \in ProjectIds :
                    /\ Tree.path[x] = ExtractPathFromUrl(target_url)
                    /\ target = [type |-> "project", id |-> x, path |-> Tree.path[x]]
        /\ GroupLookups = (IF ProjectLookupStatus = 404 THEN {2} ELSE {})
        /\ ProjectLookupStatus = 404 =>
              log[2] = Req("GET", "groups/by-path", 0, "",
                           {<<<<"encoded_path">>, PyStr(EncodedPath)>>}, {})
        /\ (ProjectLookupStatus = 404 /\ Ok(GroupLookupStatus)) =>
              \E g \in GroupIds :
                  /\ Tree.path[g] = ExtractPathFromUrl(target_url)
                  /\ target = [type |-> "group", id |-> g, path |-> Tree.path[g]]
        /\ (ProjectLookupStatus = 404 /\ GroupLookupStatus = 404) =>
              /\ raised = [type |-> "SystemExit", status |-> 0, url |-> target_url]
              /\ target = NoTarget
              /\ Len(log) = 2
              /\ calls = <<>>
\* a group found by the second lookup, and walked
C13_Witness ==
    /\ Exited
    /\ target.type = "group"
    /\ GroupLookups = {2}
    /\ Len(log) > 2

\* C14: an error other than 404 from the project lookup leaves
\* resolve_target as that error with no group lookup issued, and an error
\* other than 404 from the group lookup leaves it as that error, not as the
\* 'could not resolve' failure.
C14_LookupErrorsPropagate ==
    (Exited /\ token = PyStr(<<"t">>)) =>
        /\ (~Ok(ProjectLookupStatus) /\ ProjectLookupStatus # 404) =>
              /\ raised = ExcOf(ProjectLookupStatus)
              /\ Len(log) = 1
              /\ GroupLookups = {}
              /\ target = NoTarget
        /\ (ProjectLookupStatus = 404 /\ ~Ok(GroupLookupStatus) /\ GroupLookupStatus # 404) =>
              /\ raised = ExcOf(GroupLookupStatus)
              /\ Len(log) = 2
              /\ target = NoTarget
\* the group lookup answered 403 after the project lookup's 404
C14_Witness ==
    /\ Exited
    /\ GroupLookups = {2}
    /\ fault.res = "groups/by-path"
    /\ raised = HTTPError(403)

\* the listing request the fault of the run failed: the last one logged
FailedListing ==
    /\ fault.res \in {"groups/subgroups", "groups/projects"}
    /\ log # <<>>
    /\ log[Len(log)].res = fault.res
    /\ log[Len(log)].ent = fault.ent
\* C18: an HTTP error answer to a listing of subgroups or of direct
\* projects escapes the walk: the failed request is the last request and
\* the listing the last call of the run, the outcomes recorded are those
\* of the applications made before it, one or more each, and main
\* returns 1.
C18_ListingErrorIsFatal ==
    (Exited /\ fault.status = 403
        /\ fault.res \in {"groups/subgroups", "groups/projects"}
        /\ \E i \in 1..Len(log) : log[i].res = fault.res /\ log[i].ent = fault.ent) =>
        /\ raised = HTTPError(403)
        /\ FailedListing
        /\ Cardinality({i \in 1..Len(log) : log[i].res = fault.res /\ log[i].ent = fault.ent}) = 1
        /\ calls[Len(calls)] =
              Call(IF fault.res = "groups/subgroups" THEN "get_subgroups"
                   ELSE "get_group_projects", fault.ent)
        /\ \A i \in 1..Len(recorded) :
              \E j \in ApplyCalls : calls[j].id = recorded[i].target_id
        /\ \A j \in ApplyCalls :
              \E i \in 1..Len(recorded) : calls[j].id = recorded[i].target_id
        /\ exit_code = [returned |-> TRUE, code |-> 1]
\* the listing of a subgroup's projects failed after outcomes were recorded
C18_Witness ==
    /\ Exited
    /\ FailedListing
    /\ raised = HTTPError(403)
    /\ fault.ent = 2
    /\ recorded # <<>>

\* C19: when the traversal completes, main returns an exit code that is
\* non-zero exactly when an outcome of disposition 'error' was recorded,
\* and 0 otherwise.
C19_ExitCodeReflectsErrors ==
    (Exited /\ target # NoTarget /\ raised = NoExc) =>
        /\ exit_code.returned
        /\ exit_code.code # 0 <=> \E i \in 1..Len(recorded) : recorded[i].action = "error"
        /\ (\A i \in 1..Len(recorded) : recorded[i].action # "error") => exit_code.code = 0
\* a completed traversal with an error outcome among others
C19_Witness ==
    /\ Exited
    /\ target # NoTarget
    /\ raised = NoExc
    /\ \E i, j \in 1..Len(recorded) :
          recorded[i].action = "error" /\ recorded[j].action # "error"
    /\ exit_code.code = 1

\* C20: with GITLAB_TOKEN absent from the environment main returns 1 and
\* no request has been issued.
C20_NoTokenNoRequest ==
    (Exited /\ token = None) =>
        /\ exit_code = [returned |-> TRUE, code |-> 1]
        /\ log = <<>>
        /\ calls = <<>>
        /\ recorded = <<>>
\* main has returned for a run without the credential
C20_Witness ==
    /\ Exited
    /\ token = None
    /\ exit_code.returned
    /\ target_url # <<>>

\* C16: after a completed walk the outcome collection holds exactly one
\* outcome for every entity the operation was applied to, whatever the
\* operation variant, and as many outcomes as there were applications.
C16_OneOutcomePerApplication ==
    Completed =>
        /\ Len(recorded) = Cardinality(ApplyCalls)
        /\ \A j \in ApplyCalls :
              Cardinality({i \in 1..Len(recorded) : recorded[i].target_id = calls[j].id}) = 1

\* C17: when a request of an application to one project is answered with
\* an HTTP error (403), the application raises nothing and ends with an
\* error outcome recorded.
C17_HttpErrorsAreRecorded ==
    (phase \in {"applied", "reapplied"} /\ fault.status = 403
        /\ \E i \in 1..Len(log) : log[i].method = fault.method /\ log[i].res = fault.res) =>
        /\ raised = NoExc
        /\ recorded # <<>>
        /\ recorded[Len(recorded)].action = "error"

\* the fault of the run met a request
FaultMet ==
    \E i \in 1..Len(log) : log[i].res = fault.res /\ fault.ent \in {0, log[i].ent}
\* C21: an interruption that arrives after start-up, during a lookup of the
\* target resolution or during a listing of the traversal, makes main
\* return the exit code 130.
C21_InterruptionExits130 ==
    (Exited /\ fault.status = Interrupted /\ FaultMet) =>
        exit_code = [returned |-> TRUE, code |-> 130]

(***************************************************************************)
(* SpecCoerce: ProjectSettingOperation._coerce_value applied to one value  *)
(* string put together from at most MaxValuePieces pieces.                 *)
(***************************************************************************)
MaxValuePieces == 3
ValuePieces == {<<"t", "r", "u", "e">>, <<"T", "R", "U", "E">>, <<"y", "e", "s">>,
                <<"n", "o">>, <<"f", "a", "l", "s", "e">>, <<"0">>, <<"1">>, <<"7">>,
                <<"-">>, <<".">>, <<"x">>, <<" ">>}
Values == {Flatten(ps) : ps \in UNION {[1..n -> ValuePieces] : n \in 0..MaxValuePieces}}

InitCoerce ==
    /\ TransportIdle
    /\ MainIdle
    /\ dry_run = FALSE
    /\ \E v \in Values : op = [kind |-> "project-setting", a |-> [value |-> v]]
    /\ remote = [ent |-> <<>>, reports_total |-> TRUE]
    /\ log = <<>>
    /\ recorded = <<>>
    /\ raised = NoExc
    /\ fault = NoFault
    /\ calls = <<>>
    /\ phase = "fresh"
    /\ prev = NoRun
    /\ target = NoTarget
    /\ filter_pattern = NoFilter

\* self._coerce_value(value) (project_setting.py:135-154)
Coerce ==
    /\ phase = "fresh"
    /\ returned' = [called |-> TRUE, value |-> CoerceValue(op.a.value)]
    /\ phase' = "coerced"
    /\ UNCHANGED <<dry_run, op, remote, log, recorded, raised, fault, calls, prev, target,
                   filter_pattern, token, target_url, exit_code>>
    /\ UNCHANGED tvars

NextCoerce == Coerce

SpecCoerce == InitCoerce /\ [][NextCoerce]_vars

\* the boolean literals true/yes/1 and false/no/0, read without regard to case
IsLiteral(value, words) == StrLower(value) \in words
TrueLiterals == {<<"t", "r", "u", "e">>, <<"y", "e", "s">>, <<"1">>}
FalseLiterals == {<<"f", "a", "l", "s", "e">>, <<"n", "o">>, <<"0">>}
Coerced == phase = "coerced"

\* C22: the coerced value of a string is its first successful
\* interpretation in the order boolean literal, integer, float, raw
\* string: a literal gives its boolean; a string that parses as an integer
\* and is no boolean literal gives that integer; one that parses only as a
\* float gives that float; any other string is returned as it is.
C22_CoercionOrder ==
    Coerced =>
        LET v == op.a.value
            lit == IsLiteral(v, TrueLiterals \cup FalseLiterals)
        IN  /\ IsLiteral(v, TrueLiterals) => returned.value = PyBool(TRUE)
            /\ IsLiteral(v, FalseLiterals) => returned.value = PyBool(FALSE)
            /\ (~lit /\ IntParses(v)) => returned.value = PyInt(IntValue(v))
            /\ (~lit /\ ~IntParses(v) /\ FloatParsesStr(v)) =>
                  returned.value = PyFloat(FloatValue(v))
            /\ (~lit /\ ~IntParses(v) /\ ~FloatParsesStr(v)) => returned.value = PyStr(v)
\* "-7" became the integer -7, not a float and not a string
C22_Witness ==
    /\ Coerced
    /\ op.a.value = <<"-", "7">>
    /\ returned.value = PyInt(0 - 7)

(***************************************************************************)
(* Further properties of the operations (SpecOps)                          *)
(***************************************************************************)
ProtectsBranch == op.kind = "protect-branch" /\ ~op.a.unprotect /\ ~dry_run
BranchRecord == remote.ent[TheProject].pb[op.a.branch]

\* C23: a protect-branch application in protect mode, not in dry-run, to a
\* project whose branch has a protection record leaves the branch with a
\* protection record, whatever the DELETE and the POST are answered.
C23_NeverLeftUnprotected ==
    [][(ProtectsBranch /\ BranchRecord.present) => BranchRecord'.present]_vars

OpApplied == phase \in {"applied", "reapplied"}
Mutating(r) == r.method \in {"POST", "PUT", "DELETE"}
\* the requests of the application that the fault answered
Faulted == {i \in 1..Len(log) : log[i].method = fault.method /\ log[i].res = fault.res}

\* C24: an application issues a mutating request only after a read made
\* in the same application, and issues no mutating request after a read
\* that was answered with an HTTP error other than 404.
C24_NoMutationAfterFailedRead ==
    OpApplied =>
        /\ \A j \in 1..Len(log) :
              Mutating(log[j]) => \E i \in 1..(j - 1) : log[i].method = "GET"
        /\ (fault.method = "GET" /\ fault.status = 403) =>
              \A i \in Faulted : \A j \in (i + 1)..Len(log) : ~Mutating(log[j])

MethodCount(lg, m) == Cardinality({i \in 1..Len(lg) : lg[i].method = m})
\* the levels of the record of the branch, as the maxima of its entries
BranchDiffers ==
    \/ SeqMax(BranchRecord.push) # op.a.push
    \/ SeqMax(BranchRecord.merge) # op.a.merge
    \/ BranchRecord.force # op.a.allow_force_push
HttpErrors == {403, 404}

\* C25: in protect mode, not in dry-run, protect-branch issues at most one
\* POST, and issues it only when the read was answered 404, or when the
\* record differed and its DELETE was not answered with an error other than
\* 404; a 403 answer to the read or to the DELETE ends the application with
\* one error outcome and no further request; an error answer to the POST
\* ends it with one error outcome, the POST being the last request.
C25_ProtectSteps ==
    [][(ProtectsBranch /\ phase' # phase) =>
         /\ MethodCount(log', "POST") <= 1
         /\ MethodCount(log', "POST") = 1 =>
               \/ fault' = FaultRule("GET", "protected_branches", 404)
               \/ ~BranchRecord.present /\ fault'.method # "GET"
               \/ /\ BranchRecord.present /\ BranchDiffers
                  /\ Methods(log') = <<"GET", "DELETE", "POST">>
                  /\ fault' \notin {FaultRule("DELETE", "protected_branches", 403),
                                    FaultRule("DELETE", "protected_branches", 0)}
         /\ fault' = FaultRule("GET", "protected_branches", 403) =>
               Methods(log') = <<"GET">> /\ Actions(recorded') = <<"error">>
         /\ (fault' = FaultRule("DELETE", "protected_branches", 403)
                /\ MethodCount(log', "DELETE") > 0) =>
               Methods(log') = <<"GET", "DELETE">> /\ Actions(recorded') = <<"error">>
         /\ (fault'.method = "POST" /\ fault'.status \in HttpErrors
                /\ MethodCount(log', "POST") > 0) =>
               /\ log'[Len(log')].method = "POST"
               /\ Actions(recorded') = <<"error">>
               /\ raised' = NoExc]_vars
\* a record that differed was deleted, and the POST that followed failed
C25_Witness ==
    /\ ProtectsBranch
    /\ OpApplied
    /\ Methods(log) = <<"GET", "DELETE", "POST">>
    /\ fault = FaultRule("POST", "protected_branches", 403)
    /\ Actions(recorded) = <<"error">>

(***************************************************************************)
(* Order of the walk (SpecWalk)                                            *)
(***************************************************************************)
CallIndex(fn, id) == {i \in 1..Len(calls) : calls[i] = Call(fn, id)}
\* the calls that concern the groups strictly below g and their projects
CallsBelow(g) ==
    {i \in 1..Len(calls) :
        calls[i].id \in UNION {{h} \cup Range(Tree.proj[h]) : h \in GroupsUnder(g) \ {g}}}
OwnProjectCalls(g) ==
    {i \in 1..Len(calls) :
        calls[i].fn = "apply_to_project" /\ calls[i].id \in Range(Tree.proj[g])}

\* C26: in a completed walk, for every group visited, the application to
\* the group (for a group-applicable operation) precedes the listing of its
\* subgroups and every call below it, and every call below it (listings of
\* all descendant groups, applications to all their matching projects)
\* precedes every application to a direct project of the group.
C26_SubgroupsBeforeOwnProjects ==
    (Completed /\ target.type = "group") =>
        \A g \in GroupsUnder(target.id) :
            /\ AppliesToGroup(op) =>
                  /\ CallIndex("apply_to_group", g) # {}
                  /\ \A i \in CallIndex("apply_to_group", g),
                        j \in CallIndex("get_subgroups", g) \cup CallsBelow(g) : i < j
            /\ \A i \in CallsBelow(g), j \in OwnProjectCalls(g) : i < j
            /\ \A i \in CallIndex("get_subgroups", g),
                  j \in CallIndex("get_group_projects", g) : i < j
            /\ \A h \in GroupsUnder(g) \ {g} :
                  /\ CallIndex("get_subgroups", h) \subseteq CallsBelow(g)
                  /\ CallIndex("get_subgroups", h) # {}
                  /\ CallIndex("get_group_projects", h) # {}
                  /\ \A x \in MatchingProjects(h, filter_pattern) :
                        CallIndex("apply_to_project", x) # {}
\* the project of the root group is applied after the projects of its subgroups
C26_Witness ==
    /\ Completed
    /\ target = [type |-> "group", id |-> 1]
    /\ op.kind = "project-setting"
    /\ CallIndex("apply_to_project", 10) # {}
    /\ CallIndex("apply_to_project", 13) # {}
    /\ \A i \in CallIndex("apply_to_project", 13), j \in CallIndex("apply_to_project", 10) : i < j

(***************************************************************************)
(* Unprotect mode (SpecOps)                                                *)
(***************************************************************************)
Unprotects == op.kind \in {"protect-branch", "protect-tag"} /\ op.a.unprotect
ProtectionRecord(r) ==
    IF op.kind = "protect-branch" THEN r.ent[TheProject].pb[op.a.branch]
    ELSE r.ent[TheProject].pt[op.a.tag]

\* C27: in unprotect mode of protect-branch and protect-tag no POST is ever
\* issued and at most one DELETE; a probe answered 404 gives already_set
\* and no DELETE; for a record that exists, not in dry-run one DELETE is
\* issued and, once it succeeds, the outcome is applied and the record is
\* gone; in dry-run no DELETE is issued, the outcome is would_apply and the
\* record stays.
C27_UnprotectSteps ==
    [][(Unprotects /\ phase' # phase) =>
         /\ MethodCount(log', "POST") = 0
         /\ MethodCount(log', "DELETE") <= 1
         /\ (fault' = FaultRule("GET", fault'.res, 404)
                \/ (~ProtectionRecord(remote).present /\ fault'.method # "GET")) =>
               /\ Methods(log') = <<"GET">>
               /\ Actions(recorded') = <<"already_set">>
               /\ remote' = remote
         /\ (ProtectionRecord(remote).present /\ fault'.method # "GET" /\ ~dry_run) =>
               /\ Methods(log') = <<"GET", "DELETE">>
               /\ fault'.method # "DELETE" =>
                     /\ Actions(recorded') = <<"applied">>
                     /\ ~ProtectionRecord(remote').present
         /\ (ProtectionRecord(remote).present /\ fault'.method # "GET" /\ dry_run) =>
               /\ Methods(log') = <<"GET">>
               /\ Actions(recorded') = <<"would_apply">>
               /\ remote' = remote]_vars
\* a protected tag was unprotected with one DELETE
C27_Witness ==
    /\ Unprotects
    /\ op.kind = "protect-tag"
    /\ phase = "applied"
    /\ Methods(log) = <<"GET", "DELETE">>
    /\ Actions(recorded) = <<"applied">>
    /\ ~ProtectionRecord(remote).present

(***************************************************************************)
(* Comparison of a protection record with the desired one (SpecOps)        *)
(***************************************************************************)
Protects == op.kind \in {"protect-branch", "protect-tag"} /\ ~op.a.unprotect
\* the greatest access_level among the entries, 0 for no entry
Greatest(levels) ==
    IF levels = <<>> THEN 0
    ELSE CHOOSE x \in Range(levels) : \A y \in Range(levels) : y <= x
RecordEqualsDesired ==
    IF op.kind = "protect-branch"
    THEN /\ Greatest(ProtectionRecord(remote).push) = op.a.push
         /\ Greatest(ProtectionRecord(remote).merge) = op.a.merge
         /\ ProtectionRecord(remote).force = op.a.allow_force_push
    ELSE Greatest(ProtectionRecord(remote).create) = op.a.create

\* C28: with every request answered normally, protect-branch and
\* protect-tag applied to an entity whose record exists record already_set
\* after the GET alone, leaving the record as it is, exactly when the
\* greatest push level, the greatest merge level and the force-push flag
\* (the greatest create level for a tag) equal the desired values, a level
\* list without entries counting as 0; otherwise the record is deleted and
\* recreated (GET, DELETE, POST) with the desired levels, or in dry-run
\* reported as would_apply.
C28_MaxLevelsDecide ==
    [][(Protects /\ ProtectionRecord(remote).present /\ fault' = NoFault /\ phase' # phase) =>
         /\ RecordEqualsDesired <=> Actions(recorded') = <<"already_set">>
         /\ RecordEqualsDesired => (Methods(log') = <<"GET">> /\ remote' = remote)
         /\ (~RecordEqualsDesired /\ ~dry_run) =>
               /\ Methods(log') = <<"GET", "DELETE", "POST">>
               /\ Actions(recorded') = <<"applied">>
               /\ ProtectionRecord(remote').present
               /\ ProtectionRecord(remote') # ProtectionRecord(remote)
         /\ (~RecordEqualsDesired /\ dry_run) =>
               /\ Methods(log') = <<"GET">>
               /\ Actions(recorded') = <<"would_apply">>
               /\ remote' = remote]_vars
\* a record whose first push entry is below its greatest one was found equal
C28_Witness ==
    /\ Protects
    /\ op.kind = "protect-branch"
    /\ phase = "applied"
    /\ fault = NoFault
    /\ ProtectionRecord(remote).push = <<30, 40>>
    /\ op.a.push = 40
    /\ Actions(recorded) = <<"already_set">>

(***************************************************************************)
(* The PUT of project-setting (SpecOps)                                    *)
(***************************************************************************)
Desired == ParseSettings(op.a.settings, <<>>)
Observed(eid, k) ==
    IF k \in DOMAIN remote.ent[eid].settings THEN remote.ent[eid].settings[k] ELSE None
\* equality of two values as the language compares them: numbers, the two
\* truth values included, by their numeric value, strings by their text
SameValue(x, y) ==
    IF x.t \in {"bool", "int", "float"} /\ y.t \in {"bool", "int", "float"} THEN x.n = y.n
    ELSE x = y
Differing(eid) ==
    {kv \in Range(Desired.desired) : ~SameValue(Observed(eid, kv[1]), kv[2])}

\* C29: project-setting with well-formed key=value settings, applied to a
\* project or a group whose settings were read successfully, records
\* already_set and issues no PUT when every desired key equals the observed
\* value; otherwise, not in dry-run, it issues exactly one PUT, to that
\* entity, whose body holds exactly the desired keys whose observed value
\* differs or is missing, each with its desired value; in dry-run it issues
\* no PUT and records would_apply.
C29_PutCarriesTheDifference ==
    [][(op.kind = "project-setting" /\ Desired.ok /\ fault'.method # "GET" /\ phase' # phase) =>
         \A eid \in {TheProject, TheGroup} :
            (log' # <<>> /\ log'[1].ent = eid) =>
               /\ Differing(eid) = {} =>
                     /\ Methods(log') = <<"GET">>
                     /\ Actions(recorded') = <<"already_set">>
                     /\ remote' = remote
               /\ (Differing(eid) # {} /\ ~dry_run) =>
                     /\ Methods(log') = <<"GET", "PUT">>
                     /\ log'[2].ent = eid
                     /\ log'[2].body = Differing(eid)
                     /\ fault' = NoFault => Actions(recorded') = <<"applied">>
               /\ (Differing(eid) # {} /\ dry_run) =>
                     /\ Methods(log') = <<"GET">>
                     /\ Actions(recorded') = <<"would_apply">>
                     /\ remote' = remote]_vars
\* of two desired keys one was already as desired: the PUT carried the other
C29_Witness ==
    /\ op.kind = "project-setting"
    /\ phase = "applied"
    /\ Len(Desired.desired) = 2
    /\ Methods(log) = <<"GET", "PUT">>
    /\ log[2].body = {<<<<"build_timeout">>, PyInt(20)>>}
    /\ Actions(recorded) = <<"applied">>

(***************************************************************************)
(* approval-rule: what is compared and what is sent (SpecOps)              *)
(***************************************************************************)
RuleNames == {remote.ent[TheProject].rules[i].name : i \in 1..Len(remote.ent[TheProject].rules)}
RuleExists == op.a.rule_name \in RuleNames
TheRule ==
    remote.ent[TheProject].rules[CHOOSE i \in 1..Len(remote.ent[TheProject].rules) :
                                    remote.ent[TheProject].rules[i].name = op.a.rule_name]
\* the ids a list of identifiers resolves to: a number is its own id, a
\* username the id the directory has for it, an unknown name is left out
ResolvedIds(identifiers) ==
    {IF IntParses(x) THEN IntValue(x) ELSE UserDirectory(x) : x \in Range(identifiers)} \ {0}
DesiredUsers == (TheRule.users \cup ResolvedIds(op.a.add_users)) \ ResolvedIds(op.a.remove_users)
DesiredCount == IF op.a.approvals = None THEN TheRule.approvals_required
                ELSE op.a.approvals.n \div 1000
RuleAsDesired == DesiredUsers = TheRule.users /\ DesiredCount = TheRule.approvals_required
Mutations(lg) == SelectSeq(lg, Mutating)
\* one application of approval-rule, not dry-run, whose reads were answered
ApprovalStep ==
    op.kind = "approval-rule" /\ ~dry_run /\ fault'.method # "GET" /\ phase' # phase
UpdatesInPlace ==
    (~op.a.unprotect /\ RuleExists) =>
        /\ RuleAsDesired <=> Actions(recorded') = <<"already_set">>
        /\ RuleAsDesired => (Mutations(log') = <<>> /\ remote' = remote)
        /\ ~RuleAsDesired =>
              /\ Methods(Mutations(log')) = <<"PUT">>
              /\ Mutations(log')[1].key = op.a.rule_name
              /\ Mutations(log')[1].body = {<<<<"approvals_required">>, PyInt(DesiredCount)>>}
              /\ Mutations(log')[1].ids = DesiredUsers
DeletesOnce ==
    op.a.unprotect =>
        IF RuleExists
        THEN /\ Methods(Mutations(log')) = <<"DELETE">>
             /\ Mutations(log')[1].key = op.a.rule_name
        ELSE /\ Mutations(log') = <<>>
             /\ Actions(recorded') = <<"already_set">>
CreatesAbsent ==
    (~op.a.unprotect /\ ~RuleExists) => Methods(Mutations(log')) = <<"POST">>
CreatesAbsentWithCount ==
    (~op.a.unprotect /\ ~RuleExists) =>
        IF op.a.approvals # None
        THEN /\ Methods(Mutations(log')) = <<"POST">>
             /\ Mutations(log')[1].body = {<<<<"name">>, PyStr(<<op.a.rule_name>>)>>,
                                           <<<<"approvals_required">>, op.a.approvals>>}
             /\ Mutations(log')[1].ids = ResolvedIds(op.a.add_users)
        ELSE /\ Mutations(log') = <<>>
             /\ Actions(recorded') = <<"error">>
             /\ remote' = remote

\* C30 as stated: for a rule found by name the desired users are (current
\* users + resolved add-users) - resolved remove-users and the desired count
\* the given one or the current one; already_set without a mutation exactly
\* when both equal the current values, otherwise one PUT to that rule with
\* the full desired count and user set; an absent rule is created with one
\* POST; in delete mode an existing rule is removed with one DELETE and an
\* absent one gives already_set.
C30_RuleReconciled ==
    [][ApprovalStep => (UpdatesInPlace /\ DeletesOnce /\ CreatesAbsent)]_vars

\* C30 amended: as above, except that an absent rule is created with one
\* POST only when an approval count is given; without a count nothing is
\* sent and an error outcome is recorded.
C30_RuleReconciledGivenCount ==
    [][ApprovalStep => (UpdatesInPlace /\ DeletesOnce /\ CreatesAbsentWithCount)]_vars
\* the rule was absent and no count was given: an error and no request
C30_Witness ==
    /\ op.kind = "approval-rule"
    /\ phase = "applied"
    /\ ~dry_run
    /\ fault = NoFault
    /\ ~op.a.unprotect
    /\ op.a.approvals = None
    /\ ~RuleExists
    /\ Mutations(log) = <<>>
    /\ Actions(recorded) = <<"error">>

(***************************************************************************)
(* approval-rule: identifiers that resolve to no user (SpecOps)            *)
(***************************************************************************)
KnownUsernames == {<<"alice">>, <<"bob">>}
Resolvable(ident) == IntParses(ident) \/ ident \in KnownUsernames
HasUnresolvable ==
    \E x \in Range(op.a.add_users) \cup Range(op.a.remove_users) : ~Resolvable(x)
\* the application of the same command line without the unresolvable names
WithResolvableOnly ==
    ApprovalRule_apply_to_project(
        remote.ent[TheProject], TheProject,
        [op.a EXCEPT !.add_users = SelectSeq(@, Resolvable),
                     !.remove_users = SelectSeq(@, Resolvable)],
        dry_run, NoFault, remote.reports_total)

\* C31: with every request answered normally, an application of
\* approval-rule whose add-user or remove-user list names a user the
\* directory does not know raises nothing and ends as the application of the
\* same command line without those names does: the same mutating requests
\* with the same user ids, the same rule afterwards, the same outcome; that
\* outcome is error only when the rule is absent and no count was given.
C31_UnresolvedUserIsOmitted ==
    [][(op.kind = "approval-rule" /\ HasUnresolvable /\ fault' = NoFault /\ phase' # phase) =>
         /\ raised' = NoExc
         /\ Mutations(log') = Mutations(WithResolvableOnly.log)
         /\ remote'.ent[TheProject] = WithResolvableOnly.ent
         /\ Actions(recorded') = Actions(WithResolvableOnly.recorded)
         /\ Len(recorded') = 1
         /\ Actions(recorded') = <<"error">> =>
               (~op.a.unprotect /\ ~RuleExists /\ op.a.approvals = None)]_vars
\* a rule was created with alice (7) alone although ghost was named as well
C31_Witness ==
    /\ op.kind = "approval-rule"
    /\ phase = "applied"
    /\ fault = NoFault
    /\ <<"ghost">> \in Range(op.a.add_users)
    /\ Methods(Mutations(log)) = <<"POST">>
    /\ Mutations(log)[1].ids = {7}
    /\ Actions(recorded) = <<"applied">>

(***************************************************************************)
(* merge-request-setting: the two API generations (SpecOps)                *)
(***************************************************************************)
SetsMergeRequests == op.kind = "merge-request-setting" /\ OpApplied
NothingSpecified ==
    /\ op.a.approvals_before_merge = None
    /\ op.a.reset_approvals_on_push = NotGiven
    /\ op.a.disable_overriding_approvers = NotGiven
    /\ op.a.merge_requests_author_approval = NotGiven
    /\ op.a.merge_requests_disable_committers_approval = NotGiven
Modern == "merge_request_approval_settings"
Legacy == "approvals"
\* the answer to the GET of the modern endpoint in the latest application
ModernProbe ==
    IF fault.method = "GET" /\ fault.res = Modern THEN fault.status
    ELSE IF remote.ent[TheProject].mr_modern.present THEN 200 ELSE 404
ToLegacy == {i \in 1..Len(log) : log[i].res = Legacy}
ToModern == {i \in 1..Len(log) : log[i].res = Modern}

\* C32: an application of merge-request-setting with no setting given
\* records skipped and issues no request; otherwise its first request is the
\* GET of the modern endpoint.  A request goes to the legacy endpoint only
\* if that GET answered 404, and then the legacy endpoint is read next and
\* written, if at all, with one POST.  If the modern GET succeeded, nothing
\* is sent to the legacy endpoint and the write, if any, is one PUT to the
\* modern endpoint.  Any other HTTP error of the modern GET ends the
\* application with that one request and an error outcome.
C32_ModernProbeFirst ==
    SetsMergeRequests =>
        IF NothingSpecified THEN log = <<>> /\ Actions(recorded) = <<"skipped">>
        ELSE /\ log # <<>>
             /\ log[1].method = "GET" /\ log[1].res = Modern
             /\ ToLegacy # {} => ModernProbe = 404
             /\ ModernProbe = 404 =>
                   /\ ToModern = {1}
                   /\ Len(log) >= 2 /\ log[2].method = "GET"
                   /\ Methods(Mutations(log)) \in {<<>>, <<"POST">>}
             /\ Ok(ModernProbe) =>
                   /\ ToLegacy = {}
                   /\ Methods(Mutations(log)) \in {<<>>, <<"PUT">>}
             /\ ModernProbe = 403 =>
                   /\ Len(log) = 1
                   /\ Actions(recorded) = <<"error">>
\* the modern endpoint answered 404 and the legacy endpoint was written
C32_Witness ==
    /\ SetsMergeRequests
    /\ ModernProbe = 404
    /\ Methods(log) = <<"GET", "GET", "POST">>
    /\ log[3].res = Legacy
    /\ Actions(recorded) = <<"applied">>

(***************************************************************************)
(* merge-request-setting on the modern API: names and signs (SpecOps)      *)
(***************************************************************************)
\* the boolean settings of the command line, under their legacy names
DesiredFlags ==
    {kv \in {<<<<"reset_approvals_on_push">>, op.a.reset_approvals_on_push>>,
              <<<<"disable_overriding_approvers_per_merge_request">>,
                op.a.disable_overriding_approvers>>,
              <<<<"merge_requests_author_approval">>, op.a.merge_requests_author_approval>>,
              <<<<"merge_requests_disable_committers_approval">>,
                op.a.merge_requests_disable_committers_approval>>} : kv[2] # NotGiven}
ModernName(legacy_key) ==
    CASE legacy_key = <<"reset_approvals_on_push">> -> <<"retain_approvals_on_push">>
      [] legacy_key = <<"disable_overriding_approvers_per_merge_request">> ->
            <<"allow_overrides_to_approver_list_per_merge_request">>
      [] legacy_key = <<"merge_requests_author_approval">> -> <<"allow_author_approval">>
      [] legacy_key = <<"merge_requests_disable_committers_approval">> ->
            <<"allow_committer_approval">>
Negated(legacy_key) == legacy_key # <<"merge_requests_author_approval">>
\* the desired flags under their modern names, negated where the sign differs
Translated ==
    {<<ModernName(kv[1]), PyBool(IF Negated(kv[1]) THEN kv[2] # "true" ELSE kv[2] = "true")>> :
        kv \in DesiredFlags}
ModernDiffers ==
    {kv \in Translated : remote.ent[TheProject].mr_modern.vals[kv[1]] # kv[2]}
\* what a legacy read of the project would show for a modern value
LegacyView(vals, legacy_key) ==
    IF Negated(legacy_key) THEN vals[ModernName(legacy_key)] = PyBool(FALSE)
    ELSE vals[ModernName(legacy_key)] = PyBool(TRUE)

\* C33: on a project whose modern endpoint answers the GET, an application
\* of merge-request-setting with at least one boolean setting compares and
\* writes each under its modern name, negated for reset_approvals_on_push,
\* disable_overriding_approvers_per_merge_request and
\* merge_requests_disable_committers_approval and as given for
\* merge_requests_author_approval: no PUT when no translated value differs
\* from the observed one, otherwise (not dry-run) one PUT whose body is
\* exactly the differing translated fields; after a successful PUT every
\* desired setting reads, in legacy terms, as it was given.
C33_ModernNamesAndSigns ==
    [][(/\ op.kind = "merge-request-setting"
        /\ DesiredFlags # {}
        /\ remote.ent[TheProject].mr_modern.present
        /\ fault'.method # "GET"
        /\ phase' # phase) =>
         /\ \A i \in 1..Len(log') : log'[i].res = Modern
         /\ ModernDiffers = {} =>
               /\ Methods(log') = <<"GET">>
               /\ Actions(recorded') = <<"already_set">>
         /\ (ModernDiffers # {} /\ dry_run) =>
               /\ Methods(log') = <<"GET">>
               /\ Actions(recorded') = <<"would_apply">>
         /\ (ModernDiffers # {} /\ ~dry_run) =>
               /\ Methods(log') = <<"GET", "PUT">>
               /\ log'[2].body = ModernDiffers
         /\ (fault' = NoFault /\ ~dry_run) =>
               /\ \A kv \in DesiredFlags :
                     LegacyView(remote'.ent[TheProject].mr_modern.vals, kv[1]) = (kv[2] = "true")
               /\ remote'.ent[TheProject].mr_legacy = remote.ent[TheProject].mr_legacy]_vars
\* reset_approvals_on_push=true was written as retain_approvals_on_push=false
C33_Witness ==
    /\ SetsMergeRequests
    /\ op.a.reset_approvals_on_push = "true"
    /\ Methods(log) = <<"GET", "PUT">>
    /\ <<<<"retain_approvals_on_push">>, PyBool(FALSE)>> \in log[2].body
    /\ Actions(recorded) = <<"applied">>

(***************************************************************************)
(* merge-request-setting: what already_set stands for (SpecOps)            *)
(***************************************************************************)
\* every specified setting is among the fields of the legacy endpoint and
\* equals the observed value
LegacyAllEqual ==
    /\ op.a.approvals_before_merge # None =>
          remote.ent[TheProject].mr_legacy.vals[<<"approvals_before_merge">>]
             = op.a.approvals_before_merge
    /\ \A kv \in DesiredFlags :
          remote.ent[TheProject].mr_legacy.vals[kv[1]] = PyBool(kv[2] = "true")
\* the modern endpoint has no approvals_before_merge to compare with
ModernAllEqual ==
    /\ op.a.approvals_before_merge = None
    /\ ModernDiffers = {}

\* C36: merge-request-setting records already_set only if every setting
\* specified on the command line, approvals_before_merge included, was
\* compared with the value observed on the API generation in use and found
\* equal.
C36_AlreadySetMeansAllCompared ==
    (SetsMergeRequests /\ Actions(recorded) = <<"already_set">>) =>
        IF Ok(ModernProbe) THEN ModernAllEqual ELSE LegacyAllEqual

(***************************************************************************)
(* init-project: the sub-steps and the composite outcome (SpecOps)         *)
(***************************************************************************)
InitializesProject == op.kind = "init-project" /\ OpApplied
\* the operation labels of the sub-step outcomes of a complete application
SubStepsRun ==
    (IF op.a.skip_settings THEN <<>> ELSE << <<"init-project:settings">> >>)
    \o (IF op.a.skip_mr_settings THEN <<>> ELSE << <<"init-project:mr-settings">> >>)
    \o (IF op.a.skip_release_branch THEN <<>>
        ELSE << <<"init-project:release-branch", "release/0.0.1">> >>)
    \o (IF op.a.skip_branches THEN <<>>
        ELSE << <<"init-project:branch", "main">>, <<"init-project:branch", "release/*">> >>)
    \o (IF op.a.skip_tags THEN <<>>
        ELSE << <<"init-project:tag", "rc*">>, <<"init-project:tag", "v*">> >>)
    \o (IF op.a.skip_templates THEN <<>>
        ELSE << <<"init-project:template", "bug.md">>, <<"init-project:template", "chore.md">>,
                <<"init-project:template", "docs.md">>, <<"init-project:template", "feature.md">> >>)
SubStepOutcomes == SubSeq(recorded, 1, Len(recorded) - 1)
Composite == recorded[Len(recorded)]
WithAction(actions) == {i \in 1..Len(SubStepOutcomes) : SubStepOutcomes[i].action \in actions}

\* C34: whatever HTTP errors its requests meet, an application of
\* init-project raises nothing and records the outcomes of the sub-steps
\* that are not skipped in the order settings, merge-request settings,
\* release branch, protected branches, protected tags, issue templates (one
\* outcome per branch, tag and template), none left out after an error,
\* followed by one composite outcome; the composite is error exactly when a
\* sub-step outcome is error, and its counts of applied, already_set and
\* errors are those of the sub-step outcomes and add up to their number.
C34_CompositeSummarizes ==
    (InitializesProject /\ fault.status # 0) =>
        /\ raised = NoExc
        /\ recorded # <<>>
        /\ [i \in 1..Len(SubStepOutcomes) |-> SubStepOutcomes[i].operation] = SubStepsRun
        /\ Composite.operation = <<"init-project">>
        /\ Composite.action \in {"applied", "error"}
        /\ Composite.action = "error" <=> WithAction({"error"}) # {}
        /\ Composite.detail = <<Cardinality(WithAction({"applied", "would_apply"})),
                                Cardinality(WithAction({"already_set"})),
                                Cardinality(WithAction({"error"}))>>
        /\ Composite.detail[1] + Composite.detail[2] + Composite.detail[3] = Len(SubStepsRun)
\* the release-branch step ended in error and the steps after it still ran
C34_Witness ==
    /\ InitializesProject
    /\ Len(SubStepsRun) = 11
    /\ Len(recorded) = 12
    /\ recorded[3].action = "error"
    /\ recorded[11].action \in {"applied", "already_set"}
    /\ Composite.action = "error"
    /\ Composite.detail[3] = 1

(***************************************************************************)
(* approval-rule applied twice (SpecOps)                                   *)
(***************************************************************************)
\* C35: approval-rule applied (not dry-run, every request answered) and then
\* applied again with the same arguments to the state the first application
\* left records already_set the second time and issues no mutating request,
\* whatever the rule name, the count and the add-user and remove-user lists.
C35_ApprovalRuleIdempotent ==
    [][(/\ op.kind = "approval-rule" /\ ~dry_run
        /\ phase = "applied" /\ phase' = "reapplied"
        /\ fault = NoFault /\ fault' = NoFault) =>
         /\ Actions(recorded') = <<"already_set">>
         /\ Mutations(log') = <<>>]_vars

(***************************************************************************)
(* init-project: the release-branch step (SpecOps)                         *)
(***************************************************************************)
ReleaseBranch == "release/0.0.1"
ReleaseStep ==
    op.kind = "init-project" /\ ~op.a.skip_release_branch /\ ~dry_run /\ phase' # phase
\* the answers the remote gives in this application to the probe of the
\* branch and to its creation
BranchProbe ==
    IF fault'.method = "GET" /\ fault'.res = "repository/branches" THEN fault'.status
    ELSE IF ReleaseBranch \in remote.ent[TheProject].branches THEN 200 ELSE 404
BranchCreation ==
    IF fault'.method = "POST" /\ fault'.res = "repository/branches" THEN fault'.status
    ELSE IF "main" \in remote.ent[TheProject].branches
            /\ ReleaseBranch \notin remote.ent[TheProject].branches THEN 201 ELSE 400
DefaultBranch(r) == r.ent[TheProject].settings[<<"default_branch">>]
BranchPosts(lg) ==
    {i \in 1..Len(lg) : lg[i].method = "POST" /\ lg[i].res = "repository/branches"}
DefaultPuts(lg) ==
    {i \in 1..Len(lg) : /\ lg[i].method = "PUT" /\ lg[i].res = "projects"
                         /\ lg[i].body = {<<<<"default_branch">>, PyStr(<<ReleaseBranch>>)>>}}
ReleaseOutcomes(rec) ==
    {rec[i].action : i \in {j \in 1..Len(rec) :
                               rec[j].operation = <<"init-project:release-branch", ReleaseBranch>>}}

\* C38: in the release-branch step of init-project, not dry-run, the PUT
\* that makes the release branch the default branch is issued only after
\* the probe found the branch or after the POST that creates it succeeded;
\* when the creation fails with an HTTP error no such PUT is issued, the
\* default branch stays as it was and the outcome of the step is error;
\* when the branch exists and is the default already, the step issues no
\* mutating request and its outcome is already_set.
C38_DefaultOnlyAfterBranch ==
    [][ReleaseStep =>
         /\ \A i \in DefaultPuts(log') :
               \/ Ok(BranchProbe)
               \/ Ok(BranchCreation) /\ \E j \in BranchPosts(log') : j < i
         /\ Cardinality(DefaultPuts(log')) <= 1 /\ Cardinality(BranchPosts(log')) <= 1
         /\ (BranchPosts(log') # {} /\ BranchCreation \in {400, 403, 404}) =>
               /\ DefaultPuts(log') = {}
               /\ DefaultBranch(remote') = DefaultBranch(remote)
               /\ ReleaseOutcomes(recorded') = {"error"}
         /\ (/\ Ok(BranchProbe)
             /\ DefaultBranch(remote) = PyStr(<<ReleaseBranch>>)
             /\ ReleaseOutcomes(recorded') # {}
             /\ ~(fault'.method = "GET" /\ fault'.res = "projects")) =>
               /\ BranchPosts(log') = {}
               /\ DefaultPuts(log') = {}
               /\ ReleaseOutcomes(recorded') = {"already_set"}]_vars
\* the branch was missing, its creation succeeded and it was made the default
C38_Witness ==
    /\ op.kind = "init-project" /\ ~op.a.skip_release_branch /\ ~dry_run
    /\ phase = "applied"
    /\ fault = NoFault
    /\ BranchPosts(log) # {}
    /\ \E i \in DefaultPuts(log) : \E j \in BranchPosts(log) : j < i
    /\ DefaultBranch(remote) = PyStr(<<ReleaseBranch>>)
    /\ ReleaseOutcomes(recorded) = {"applied"}

(***************************************************************************)
(* The ways main can end (SpecMain)                                        *)
(***************************************************************************)
\* C37: whatever HTTP answers and connection failures the lookups of the
\* target resolution and the requests of the traversal meet, main ends by
\* returning one of the exit codes 0, 1 and 130; no exception leaves main.
C37_MainAlwaysReturns ==
    (Exited /\ fault.status # Interrupted) =>
        /\ exit_code.returned
        /\ exit_code.code \in {0, 1, 130}

(***************************************************************************)
(* The end of a transport request for any retry budget (SpecTransport)     *)
(***************************************************************************)
\* C39: for every max_retries the command line accepts, negative values
\* included, a request that has ended made at least one HTTP attempt and
\* either returned a response or raised the HTTP or connection error of its
\* last attempt; the RuntimeError after the retry loop is never raised.
C39_SafetyNetUnreachable ==
    (t_pc \in {"returned", "raised"}) =>
        /\ trace # <<>>
        /\ t_exc # RuntimeError
        /\ t_pc = "raised" => t_exc = ErrorOf(trace[Len(trace)])

====
